---- MODULE Spec2Model ----
(***************************************************************************)
(* Model of the chemequip-analyzer analysis backend                        *)
(* (src/backend/analysis): the CSV loader and cleaner, the outlier         *)
(* detectors, the efficiency ranking and the orchestrator that calls them  *)
(* in sequence; and of the upload request of the web API                   *)
(* (src/backend/api) that runs the analysis and stores its report.         *)
(*                                                                         *)
(* Numbers are exact rationals <<n, d>> (d > 0, lowest terms); the float   *)
(* NaN that pandas uses for a missing value is <<0, 0>>.  A missing        *)
(* string cell (NaN in an object column) is the empty string.              *)
(***************************************************************************)
EXTENDS Integers, Sequences, FiniteSets, TLC

VARIABLES
    file,       \* the uploaded CSV: [hdr |-> set of column names, rows |-> raw rows]
    pc,         \* position of the call in progress
    df,         \* the cleaned table returned by load_and_clean_data
    err,        \* the exception that ended the call, NoError while none
    ran,        \* the analysis components that have been run on df
    df2,        \* the table returned by cleaning the written-back df
    out,        \* results of the analysis components
    req,        \* the upload requests in flight at the web API, by request
    db,         \* the DatasetUpload table: a set of records
    now,        \* the clock read by timezone.now, counted in ticks
    next_id,    \* the next primary key of the DatasetUpload table
    resp,       \* the last response to a history, detail or delete request
    widget      \* the desktop upload widget and the upload workers it started

vars == <<file, pc, df, err, ran, df2, out, req, db, now, next_id, resp, widget>>

\* the state of the web API
web == <<req, db, now, next_id, resp>>

\* upload_widget.py lines 39-45 and 227: a new widget has no selected file,
\* no worker and a disabled upload button; token is the client's token
UploadWidget(token) ==
    [selected_file |-> <<>>, upload_button |-> FALSE, workers |-> <<>>,
     token |-> token]

\* no request has been made and nothing is stored
NoUploads ==
    /\ req = <<>> /\ db = {} /\ now = 0 /\ next_id = 1 /\ resp = <<>>
    /\ widget = UploadWidget(FALSE)

---------------------------------------------------------------------------
\* F applied to the value of e: a local variable of the code, assigned once
With(e, F(_)) == CHOOSE r \in {F(x) : x \in {e}} : TRUE

\* a function held as its table of values
Table(f) == f @@ <<>>

---------------------------------------------------------------------------
(* Exact arithmetic standing for float64 *)

NaN == <<0, 0>>

IsNaN(x) == x[2] = 0

Abs(n) == IF n < 0 THEN -n ELSE n

RECURSIVE GCD(_, _)
GCD(a, b) == IF b = 0 THEN a ELSE GCD(b, a % b)

Rat(n, d) ==
    IF d = 0 THEN NaN
    ELSE With(GCD(Abs(n), Abs(d)), LAMBDA g :
            IF d < 0 THEN <<(-n) \div g, (-d) \div g>> ELSE <<n \div g, d \div g>>)

Int2Rat(n) == <<n, 1>>

RAdd(x, y) == IF IsNaN(x) \/ IsNaN(y) THEN NaN
              ELSE Rat(x[1] * y[2] + y[1] * x[2], x[2] * y[2])

RSub(x, y) == IF IsNaN(x) \/ IsNaN(y) THEN NaN
              ELSE Rat(x[1] * y[2] - y[1] * x[2], x[2] * y[2])

RMul(x, y) == IF IsNaN(x) \/ IsNaN(y) THEN NaN
              ELSE Rat(x[1] * y[1], x[2] * y[2])

\* x / y; a zero divisor gives NaN here (callers guard it where the code does)
RDiv(x, y) == IF IsNaN(x) \/ IsNaN(y) \/ y[1] = 0 THEN NaN
              ELSE Rat(x[1] * y[2], x[2] * y[1])

\* comparisons with NaN are False, as in IEEE arithmetic
RLt(x, y) == ~IsNaN(x) /\ ~IsNaN(y) /\ x[1] * y[2] < y[1] * x[2]

RLe(x, y) == ~IsNaN(x) /\ ~IsNaN(y) /\ x[1] * y[2] <= y[1] * x[2]

RAbs(x) == <<Abs(x[1]), x[2]>>

---------------------------------------------------------------------------
(* load_and_clean_data *)

\* mutant: Temperature is not checked
required_columns_no_temperature == <<"Equipment Name", "Type", "Flowrate", "Pressure">>

\* line 7
required_columns == <<"Equipment Name", "Type", "Flowrate", "Pressure", "Temperature">>

numeric_cols == <<"Flowrate", "Pressure", "Temperature">>

Range(s) == {s[i] : i \in DOMAIN s}

\* raw CSV cells of a numeric column: a numeral, other text, or nothing
NumCell(n) == [k |-> "num", v |-> Int2Rat(n)]
TextCell == [k |-> "text", v |-> NaN]
EmptyCell == [k |-> "empty", v |-> NaN]

NoError == [exc |-> "", msg |-> ""]

\* pd.read_csv: header-driven, RangeIndex 0..n-1
read_csv(f) ==
    [columns |-> f.hdr,
     index   |-> [i \in 1..Len(f.rows) |-> i - 1],
     rows    |-> f.rows]

\* pd.to_numeric(errors='coerce') on one cell
to_numeric(cell) == IF cell.k = "num" THEN cell.v ELSE NaN

isnull(row, col) ==
    IF col \in Range(numeric_cols) THEN IsNaN(row[col]) ELSE row[col] = ""

RECURSIVE SumCol(_, _, _)
SumCol(rows, col, i) ==
    IF i = 0 THEN Int2Rat(0)
    ELSE IF IsNaN(rows[i][col]) THEN SumCol(rows, col, i - 1)
    ELSE RAdd(SumCol(rows, col, i - 1), rows[i][col])

CountCol(rows, col) == Cardinality({i \in DOMAIN rows : ~IsNaN(rows[i][col])})

\* Series.mean(): NaN cells are skipped; NaN when nothing is left
mean(rows, col) ==
    IF CountCol(rows, col) = 0 THEN NaN
    ELSE RDiv(SumCol(rows, col, Len(rows)), Int2Rat(CountCol(rows, col)))

\* the members of the set S of positions 1..n, in increasing order from i on
RECURSIVE Positions(_, _, _)
Positions(S, n, i) ==
    IF i > n THEN <<>>
    ELSE IF i \in S THEN <<i>> \o Positions(S, n, i + 1)
    ELSE Positions(S, n, i + 1)

Take(d, pos) ==
    [columns |-> d.columns,
     index   |-> Table([k \in DOMAIN pos |-> d.index[pos[k]]]),
     rows    |-> Table([k \in DOMAIN pos |-> d.rows[pos[k]]])]

\* lines 14-15: the numeric columns coerced cell by cell
coerce(d) ==
    [d EXCEPT !.rows = Table([i \in DOMAIN d.rows |->
        Table([c \in DOMAIN d.rows[i] |->
            IF c \in Range(numeric_cols) THEN to_numeric(d.rows[i][c])
            ELSE d.rows[i][c]])])]

\* lines 17-18: every NaN of a numeric column becomes that column's mean
fillna(d) ==
    LET m == Table([c \in Range(numeric_cols) |-> mean(d.rows, c)]) IN
    [d EXCEPT !.rows = Table([i \in DOMAIN d.rows |->
        Table([c \in DOMAIN d.rows[i] |->
            IF c \in Range(numeric_cols) /\ IsNaN(d.rows[i][c])
            THEN m[c]
            ELSE d.rows[i][c]])])]

NonNull(row) == Cardinality({c \in DOMAIN row : ~isnull(row, c)})

\* line 20: DataFrame.dropna(thresh): rows with at least thresh non-NA cells
dropna(d, thresh) ==
    Take(d, Positions({i \in DOMAIN d.rows : NonNull(d.rows[i]) >= thresh},
                      Len(d.rows), 1))

\* mutant: drop_duplicates(keep='last')
drop_duplicates_last(d) ==
    Take(d, Positions({i \in DOMAIN d.rows :
                          \A j \in (i + 1)..Len(d.rows) : d.rows[j] # d.rows[i]},
                      Len(d.rows), 1))

\* line 22: DataFrame.drop_duplicates(): first occurrence kept, labels kept
drop_duplicates(d) ==
    Take(d, Positions({i \in DOMAIN d.rows :
                          \A j \in 1..(i - 1) : d.rows[j] # d.rows[i]},
                      Len(d.rows), 1))

\* line 22: reset_index(drop=True)
reset_index(d) == [d EXCEPT !.index = Table([i \in DOMAIN d.rows |-> i - 1])]

MissingColumns(d) == {i \in DOMAIN required_columns : required_columns[i] \notin d.columns}

FirstMissing(d) ==
    required_columns[CHOOSE i \in MissingColumns(d) : \A j \in MissingColumns(d) : i <= j]

dropna_thresh == 3

\* mutant: duplicates dropped before the missing values are filled
df_clean_dedup_first(d) == dropna(fillna(drop_duplicates(coerce(d))), dropna_thresh)

\* lines 12-22, the table before the final reset_index
df_clean(d) == drop_duplicates(dropna(fillna(coerce(d)), dropna_thresh))

EmptyFrame == [columns |-> {}, index |-> <<>>, rows |-> <<>>]

load_and_clean_data(f) ==
    With(read_csv(f), LAMBDA d :
    IF MissingColumns(d) # {}
    THEN [err |-> [exc |-> "ValueError",
                   msg |-> "Missing required column: " \o FirstMissing(d)],
          df  |-> EmptyFrame]
    ELSE IF \E c \in Range(numeric_cols) : c \notin d.columns
    THEN [err |-> [exc |-> "KeyError", msg |-> "column"], df |-> EmptyFrame]
    ELSE [err |-> NoError, df |-> reset_index(df_clean(d))])

\* DataFrame.to_csv(index=False) of a cleaned table, as read back by read_csv:
\* NaN is written as an empty field, a number as a numeral
to_csv(d) ==
    [hdr  |-> d.columns,
     rows |-> Table([i \in DOMAIN d.rows |->
        Table([c \in DOMAIN d.rows[i] |->
            IF c \in Range(numeric_cols)
            THEN (IF IsNaN(d.rows[i][c]) THEN EmptyCell
                  ELSE [k |-> "num", v |-> d.rows[i][c]])
            ELSE d.rows[i][c]])])]

---------------------------------------------------------------------------
(* Series statistics *)

\* the non-NaN values of a column, in row order
RECURSIVE Values(_, _, _)
Values(rows, col, i) ==
    IF i > Len(rows) THEN <<>>
    ELSE IF IsNaN(rows[i][col]) THEN Values(rows, col, i + 1)
    ELSE <<rows[i][col]>> \o Values(rows, col, i + 1)

RECURSIVE Insert(_, _)
Insert(x, s) ==
    IF s = <<>> THEN <<x>>
    ELSE IF RLe(x, Head(s)) THEN <<x>> \o s
    ELSE <<Head(s)>> \o Insert(x, Tail(s))

RECURSIVE SortAsc(_)
SortAsc(s) == IF s = <<>> THEN <<>> ELSE Insert(Head(s), SortAsc(Tail(s)))

\* the value at the fractional rank h of the sorted values v, by linear
\* interpolation between the two nearest ranks
interpolate(v, h) ==
    LET lo == h[1] \div h[2]
        fr == RSub(h, Int2Rat(lo))
    IN  IF fr[1] = 0 THEN v[lo + 1]
        ELSE RAdd(v[lo + 1], RMul(fr, RSub(v[lo + 2], v[lo + 1])))

\* Series.quantile(q), NaN skipped
quantile(rows, col, q) ==
    With(SortAsc(Values(rows, col, 1)), LAMBDA v :
        IF Len(v) = 0 THEN NaN ELSE interpolate(v, RMul(Int2Rat(Len(v) - 1), q)))

Sq(x) == RMul(x, x)

RECURSIVE SumSq(_, _, _, _)
SumSq(rows, col, m, i) ==
    IF i = 0 THEN Int2Rat(0)
    ELSE IF IsNaN(rows[i][col]) THEN SumSq(rows, col, m, i - 1)
    ELSE RAdd(SumSq(rows, col, m, i - 1), Sq(RSub(rows[i][col], m)))

\* Series.var(): the sample variance (ddof = 1), NaN below two values.
\* Series.std() is its square root; the model keeps the square.
var(rows, col) ==
    IF CountCol(rows, col) < 2 THEN NaN
    ELSE RDiv(SumSq(rows, col, mean(rows, col), Len(rows)),
              Int2Rat(CountCol(rows, col) - 1))

\* Series.min() and Series.max(), NaN skipped
colmin(rows, col) ==
    With(SortAsc(Values(rows, col, 1)), LAMBDA v : IF v = <<>> THEN NaN ELSE v[1])

colmax(rows, col) ==
    With(SortAsc(Values(rows, col, 1)), LAMBDA v : IF v = <<>> THEN NaN ELSE v[Len(v)])

\* str() of a cell of an object column: a missing cell is the float NaN
str(x) == IF x = "" THEN "nan" ELSE x

---------------------------------------------------------------------------
(* outliers.py *)

iqr_factor == <<3, 2>>

\* mutant: the bounds themselves count as outliers
is_iqr_outlier_inclusive(v, lower_bound, upper_bound) ==
    RLe(v, lower_bound) \/ RLe(upper_bound, v)

\* line 16: (df[col] < lower_bound) | (df[col] > upper_bound)
is_iqr_outlier(v, lower_bound, upper_bound) ==
    RLt(v, lower_bound) \/ RLt(upper_bound, v)

\* lines 16-31: the rows outside the bounds, in row order, one entry each
iqr_outlier_list(d, col, lower_bound, upper_bound) ==
    With(Positions({i \in DOMAIN d.rows :
                       is_iqr_outlier(d.rows[i][col], lower_bound, upper_bound)},
                   Len(d.rows), 1),
         LAMBDA pos :
            Table([k \in DOMAIN pos |->
                LET row == d.rows[pos[k]] IN
                [equipment_name |-> str(row["Equipment Name"]),
                 type           |-> str(row["Type"]),
                 value          |-> row[col],
                 flowrate       |-> row["Flowrate"],
                 pressure       |-> row["Pressure"],
                 temperature    |-> row["Temperature"],
                 deviation_type |-> IF RLt(row[col], lower_bound)
                                    THEN "low" ELSE "high"]]))

\* lines 5-49
detect_outliers_iqr(d) ==
    Table([col \in Range(numeric_cols) |->
        With(quantile(d.rows, col, <<1, 4>>), LAMBDA Q1 :
        With(quantile(d.rows, col, <<3, 4>>), LAMBDA Q3 :
        With(RSub(Q3, Q1), LAMBDA IQR :
        With(RSub(Q1, RMul(iqr_factor, IQR)), LAMBDA lower_bound :
        With(RAdd(Q3, RMul(iqr_factor, IQR)), LAMBDA upper_bound :
        With(iqr_outlier_list(d, col, lower_bound, upper_bound), LAMBDA outlier_list :
            [lower_bound     |-> lower_bound,
             upper_bound     |-> upper_bound,
             outliers        |-> outlier_list,
             outlier_count   |-> Len(outlier_list),
             total_equipment |-> Len(d.rows),
             outlier_percentage |->
                 IF Len(d.rows) > 0
                 THEN RMul(RDiv(Int2Rat(Len(outlier_list)), Int2Rat(Len(d.rows))),
                           Int2Rat(100))
                 ELSE Int2Rat(0),
             statistics      |-> [q1 |-> Q1, q3 |-> Q3, iqr |-> IQR,
                                  median   |-> quantile(d.rows, col, <<1, 2>>),
                                  mean     |-> mean(d.rows, col)]]))))))])

zscore_threshold == 2

\* line 70: z = |x - mean| / std, kept as its square (x - mean)^2 / var
z_score_sq(x, mean_val, var_val) == RDiv(Sq(RSub(x, mean_val)), var_val)

\* lines 70-87: the rows with z > threshold, decided on the squares
zscore_outlier_list(d, col, threshold, mean_val, var_val) ==
    With(Positions({i \in DOMAIN d.rows :
                       RLt(Sq(Int2Rat(threshold)),
                           z_score_sq(d.rows[i][col], mean_val, var_val))},
                   Len(d.rows), 1),
         LAMBDA pos :
            Table([k \in DOMAIN pos |->
                LET row == d.rows[pos[k]] IN
                [equipment_name |-> str(row["Equipment Name"]),
                 type           |-> str(row["Type"]),
                 value          |-> row[col],
                 z_score_sq     |-> z_score_sq(row[col], mean_val, var_val),
                 flowrate       |-> row["Flowrate"],
                 pressure       |-> row["Pressure"],
                 temperature    |-> row["Temperature"]]]))

\* detect_outliers_zscore without the std_val == 0 branch of lines 60-68
detect_outliers_zscore_no_zero_check(d, threshold) ==
    Table([col \in Range(numeric_cols) |->
        With(mean(d.rows, col), LAMBDA mean_val :
        With(var(d.rows, col), LAMBDA var_val :
        With(zscore_outlier_list(d, col, threshold, mean_val, var_val),
             LAMBDA outlier_list :
                 [method |-> "z-score", threshold |-> threshold,
                  outliers |-> outlier_list,
                  outlier_count |-> Len(outlier_list),
                  total_equipment |-> Len(d.rows),
                  statistics |-> [mean |-> mean_val, var |-> var_val]])))])

\* lines 52-101
detect_outliers_zscore(d, threshold) ==
    Table([col \in Range(numeric_cols) |->
        With(mean(d.rows, col), LAMBDA mean_val :
        With(var(d.rows, col), LAMBDA var_val :
            IF ~IsNaN(var_val) /\ var_val[1] = 0
            THEN [method |-> "z-score", threshold |-> threshold,
                  outliers |-> <<>>, outlier_count |-> 0,
                  message |-> "No variation in data - all values are identical"]
            ELSE With(zscore_outlier_list(d, col, threshold, mean_val, var_val),
                      LAMBDA outlier_list :
                 [method |-> "z-score", threshold |-> threshold,
                  outliers |-> outlier_list,
                  outlier_count |-> Len(outlier_list),
                  total_equipment |-> Len(d.rows),
                  statistics |-> [mean |-> mean_val, var |-> var_val]])))])

\* lines 132-146
get_consensus_outliers(iqr_outliers, zscore_outliers) ==
    LET iqr_names == {iqr_outliers[i].equipment_name : i \in DOMAIN iqr_outliers}
        zscore_names == {zscore_outliers[i].equipment_name : i \in DOMAIN zscore_outliers}
        consensus_names == iqr_names \cap zscore_names
    IN  With(Positions({i \in DOMAIN iqr_outliers :
                           iqr_outliers[i].equipment_name \in consensus_names},
                       Len(iqr_outliers), 1),
             LAMBDA pos :
                [count     |-> Len(pos),
                 equipment |-> Table([k \in DOMAIN pos |-> iqr_outliers[pos[k]]])])

\* lines 104-129
comprehensive_outlier_analysis(d) ==
    With(detect_outliers_iqr(d), LAMBDA iqr :
    With(detect_outliers_zscore(d, zscore_threshold), LAMBDA zs :
        [iqr_method    |-> iqr,
         zscore_method |-> zs,
         summary |->
            [total_equipment |-> Len(d.rows),
             outlier_summary |->
                Table([col \in Range(numeric_cols) |->
                    [iqr_outliers       |-> Len(iqr[col].outliers),
                     zscore_outliers    |-> Len(zs[col].outliers),
                     consensus_outliers |->
                         get_consensus_outliers(iqr[col].outliers, zs[col].outliers)]])]]))

Repeat(x, n) == [i \in 1..n |-> x]

Min(S) == CHOOSE x \in S : \A y \in S : x <= y

\* lines 149-197.  multi_parameter_outliers is built by iterating a Python
\* set of names, whose order is not fixed: it is kept as a set of entries.
analyze_outlier_patterns(d) ==
    With(comprehensive_outlier_analysis(d).iqr_method, LAMBDA iqr :
    LET all_outlier_equipment ==
            UNION {{iqr[col].outliers[i].equipment_name : i \in DOMAIN iqr[col].outliers} :
                   col \in Range(numeric_cols)}
        RowsNamed(n) == {i \in DOMAIN d.rows : d.rows[i]["Equipment Name"] = n}
        equipment_row(n) == d.rows[Min(RowsNamed(n))]
        hits(n, col) ==
            Cardinality({i \in DOMAIN iqr[col].outliers :
                            iqr[col].outliers[i].equipment_name = n})
        outlier_params(n) ==
            Repeat("Flowrate", hits(n, "Flowrate")) \o
            Repeat("Pressure", hits(n, "Pressure")) \o
            Repeat("Temperature", hits(n, "Temperature"))
        multi == {n \in all_outlier_equipment : Len(outlier_params(n)) > 1}
        types == {str(equipment_row(n)["Type"]) : n \in all_outlier_equipment}
    IN  IF \E n \in all_outlier_equipment : RowsNamed(n) = {}
        THEN [err |-> [exc |-> "IndexError",
                       msg |-> "single positional indexer is out-of-bounds"]]
        ELSE [err |-> NoError,
              equipment_type_outliers |->
                  [t \in types |->
                      Cardinality({n \in all_outlier_equipment :
                                      str(equipment_row(n)["Type"]) = t})],
              multi_parameter_outliers |->
                  {[equipment_name     |-> n,
                    type               |-> str(equipment_row(n)["Type"]),
                    outlier_parameters |-> outlier_params(n),
                    parameter_count    |-> Len(outlier_params(n))] : n \in multi},
              outlier_characteristics |->
                  [total_outlier_equipment |-> Cardinality(all_outlier_equipment),
                   multi_parameter_outliers_count |-> Cardinality(multi),
                   single_parameter_outliers_count |->
                       Cardinality(all_outlier_equipment) - Cardinality(multi)]])

---------------------------------------------------------------------------
(* efficiency.py *)

\* lines 11-16: MinMaxScaler().fit_transform; a column whose range is zero is
\* scaled by 1, so all its cells become 0
minmax(lo, hi, x) ==
        IF IsNaN(x) \/ IsNaN(lo) THEN NaN
        ELSE IF hi = lo THEN RSub(x, lo)
        ELSE RDiv(RSub(x, lo), RSub(hi, lo))

\* lines 6-22: the three _norm columns, one record per row
normalize_data(d) ==
    With(Table([c \in Range(numeric_cols) |-> colmin(d.rows, c)]), LAMBDA lo :
    With(Table([c \in Range(numeric_cols) |-> colmax(d.rows, c)]), LAMBDA hi :
        Table([i \in DOMAIN d.rows |->
            With(Table([c \in Range(numeric_cols) |-> minmax(lo[c], hi[c], d.rows[i][c])]),
                 LAMBDA n :
                    [Flowrate_norm    |-> n["Flowrate"],
                     Pressure_norm    |-> n["Pressure"],
                     Temperature_norm |-> n["Temperature"]])])))

\* normalize_data writing its columns into the table it was given
table_after_normalize_in_place(d) ==
    [d EXCEPT !.columns = @ \cup {"Flowrate_norm", "Pressure_norm", "Temperature_norm"}]

\* line 9, df_norm = df.copy(): the new columns go to the copy, the table
\* the caller holds is left as it was
table_after_normalize(d) == d

One == Int2Rat(1)
Zero == Int2Rat(0)

\* 1 - abs(x - target)
closeness(x, target) == RSub(One, RAbs(RSub(x, target)))

\* np.maximum(x, 0): NaN stays NaN
np_maximum0(x) == IF IsNaN(x) THEN NaN ELSE IF RLt(x, Zero) THEN Zero ELSE x

\* mutant: the score is not clamped
clamp01_none(score) == score

\* Python's max(0, min(1, score)): a NaN never compares smaller or greater,
\* so min(1, NaN) is 1
clamp01(score) ==
    With(IF RLt(score, One) THEN score ELSE One, LAMBDA m :
        IF RLt(Zero, m) THEN m ELSE Zero)

Weighted(a, wa, b, wb, c, wc) == RAdd(RAdd(RMul(a, wa), RMul(b, wb)), RMul(c, wc))

\* lines 32-37
efficiency_score(nr) ==
    Weighted(nr.Flowrate_norm, <<2, 5>>, nr.Pressure_norm, <<3, 10>>,
             closeness(nr.Temperature_norm, <<7, 10>>), <<3, 10>>)

\* lines 51-62
calculate_performance_index(nr) ==
    Weighted(nr.Flowrate_norm, <<7, 20>>, nr.Pressure_norm, <<7, 20>>,
             np_maximum0(closeness(nr.Temperature_norm, <<3, 5>>)), <<3, 10>>)

\* lines 72-93: the three weighted terms of each equipment type
equipment_terms(equipment_type, f, p, t) ==
    CASE equipment_type = "Pump" ->
            <<f, <<1, 2>>, p, <<3, 10>>, closeness(t, <<1, 2>>), <<1, 5>>>>
      [] equipment_type = "Compressor" ->
            <<p, <<1, 2>>, f, <<3, 10>>, closeness(t, <<2, 5>>), <<1, 5>>>>
      [] equipment_type = "HeatExchanger" ->
            <<t, <<2, 5>>, f, <<2, 5>>, p, <<1, 5>>>>
      [] equipment_type = "Reactor" ->
            <<t, <<2, 5>>, p, <<2, 5>>, f, <<1, 5>>>>
      [] equipment_type = "Condenser" ->
            <<f, <<1, 2>>, closeness(t, <<3, 5>>), <<3, 10>>, p, <<1, 5>>>>
      [] equipment_type = "Valve" ->
            <<closeness(p, <<1, 2>>), <<2, 5>>, f, <<2, 5>>,
              closeness(t, <<1, 2>>), <<1, 5>>>>
      [] OTHER ->
            <<f, <<2, 5>>, p, <<3, 10>>, closeness(t, <<3, 5>>), <<3, 10>>>>

\* lines 65-97
calculate_equipment_specific_efficiency(equipment_type, nr) ==
    With(equipment_terms(equipment_type, nr.Flowrate_norm, nr.Pressure_norm,
                         nr.Temperature_norm),
         LAMBDA w : clamp01(Weighted(w[1], w[2], w[3], w[4], w[5], w[6])))

\* lines 100-113
calculate_operational_score(nr) ==
    Weighted(np_maximum0(closeness(nr.Flowrate_norm, <<3, 4>>)), <<2, 5>>,
             np_maximum0(closeness(nr.Pressure_norm, <<13, 20>>)), <<3, 10>>,
             np_maximum0(closeness(nr.Temperature_norm, <<7, 10>>)), <<3, 10>>)

\* lines 25-48: the four score columns, one record per row
compute_efficiency_scores(d) ==
    With(normalize_data(d), LAMBDA norm :
        Table([i \in DOMAIN d.rows |->
            [Efficiency_Score     |-> efficiency_score(norm[i]),
             Performance_Index    |-> calculate_performance_index(norm[i]),
             Equipment_Efficiency |->
                 calculate_equipment_specific_efficiency(d.rows[i]["Type"], norm[i]),
             Operational_Score    |-> calculate_operational_score(norm[i])]]))

\* sort_values(key, ascending=False): larger first, NaN last.  The default
\* sort kind is not stable, so every order of equal keys is possible.
ComesFirst(a, b) == (~IsNaN(a) /\ IsNaN(b)) \/ RLt(b, a)

\* the row orders df_scores.sort_values(key, ascending=False) can produce
SortOrders(sc, key) ==
    {p \in [DOMAIN sc -> DOMAIN sc] :
        /\ \A i, j \in DOMAIN sc : i # j => p[i] # p[j]
        /\ \A i, j \in DOMAIN sc : i < j => ~ComesFirst(sc[p[j]][key], sc[p[i]][key])}

\* mutant: the row's label + 1 instead of its position in the sorted table
rank_by_label(sorted_index, label) == label + 1

\* df_ranked.index.get_loc(row.name) + 1; labels are unique after reset_index
rank_of(sorted_index, label) ==
    CHOOSE k \in DOMAIN sorted_index : sorted_index[k] = label

\* the index of the table sorted in the order p
sorted_index(d, p) == Table([j \in DOMAIN p |-> d.index[p[j]]])

\* lines 130-164: the three rankings, given the scores and the order each
\* sort produced
rankings(d, sc, p_eff, p_perf, p_equip) ==
    [overall_efficiency |->
        Table([k \in DOMAIN p_eff |->
            LET i == p_eff[k] IN
            [equipment_name       |-> str(d.rows[i]["Equipment Name"]),
             type                 |-> str(d.rows[i]["Type"]),
             flowrate             |-> d.rows[i]["Flowrate"],
             pressure             |-> d.rows[i]["Pressure"],
             temperature          |-> d.rows[i]["Temperature"],
             efficiency_score     |-> sc[i].Efficiency_Score,
             performance_index    |-> sc[i].Performance_Index,
             equipment_efficiency |-> sc[i].Equipment_Efficiency,
             operational_score    |-> sc[i].Operational_Score,
             rank |-> rank_of(sorted_index(d, p_eff), d.index[i])]]),
     performance_index |->
        Table([k \in DOMAIN p_perf |->
            LET i == p_perf[k] IN
            [equipment_name    |-> str(d.rows[i]["Equipment Name"]),
             type              |-> str(d.rows[i]["Type"]),
             performance_index |-> sc[i].Performance_Index,
             rank |-> rank_of(sorted_index(d, p_perf), d.index[i])]]),
     equipment_specific |->
        Table([k \in DOMAIN p_equip |->
            LET i == p_equip[k] IN
            [equipment_name       |-> str(d.rows[i]["Equipment Name"]),
             type                 |-> str(d.rows[i]["Type"]),
             equipment_efficiency |-> sc[i].Equipment_Efficiency,
             rank |-> rank_of(sorted_index(d, p_equip), d.index[i])]])]

\* lines 116-199: every result the call can return, one per outcome of the
\* three sorts
rank_equipment_by_efficiency(d) ==
    UNION {{rankings(d, sc, p_eff, p_perf, p_equip) :
                p_eff \in SortOrders(sc, "Efficiency_Score"),
                p_perf \in SortOrders(sc, "Performance_Index"),
                p_equip \in SortOrders(sc, "Equipment_Efficiency")} :
           sc \in {compute_efficiency_scores(d)}}

---------------------------------------------------------------------------
(* metrics.py and insights.py.  Of each result the model keeps the counts,
   the means and variances, and for the statistics it does not compute
   (skewness, kurtosis, Shapiro-Wilk) whether the library defines them. *)

\* df["Type"].unique(): the distinct Type cells, a missing one included
TypesOf(d) == {d.rows[i]["Type"] : i \in DOMAIN d.rows}

\* len(df[df["Type"] == equipment_type]): NaN equals nothing
CountOfType(d, equipment_type) ==
    Cardinality({i \in DOMAIN d.rows :
                    equipment_type # "" /\ d.rows[i]["Type"] = equipment_type})

\* std / mean if mean != 0 else 0.0, kept as its square var / mean^2
coefficient_of_variation_sq(mean_val, var_val) ==
    IF mean_val = Zero THEN Zero ELSE RDiv(var_val, Sq(mean_val))

\* metrics.py lines 32-53: skew() needs 3 values and kurtosis() 4
overall_stats(rows, col) ==
    With(mean(rows, col), LAMBDA mean_val :
    With(var(rows, col), LAMBDA var_val :
        [mean     |-> mean_val,
         variance |-> var_val,
         coefficient_of_variation_sq |-> coefficient_of_variation_sq(mean_val, var_val),
         skewness_is_nan |-> CountCol(rows, col) < 3,
         kurtosis_is_nan |-> CountCol(rows, col) < 4]))

\* metrics.py lines 7-69
compute_basic_metrics(d) ==
    [dataset_overview |-> [total_equipment_count |-> Len(d.rows),
                           equipment_types_count |-> Cardinality(TypesOf(d))],
     overall_stats    |-> Table([col \in Range(numeric_cols) |-> overall_stats(d.rows, col)])]

\* metrics.py lines 72-128
compute_type_metrics(d) ==
    Table([equipment_type \in TypesOf(d) |-> [count |-> CountOfType(d, equipment_type)]])

\* metrics.py lines 185-197: stats.shapiro raises below 3 values and the
\* except branch stores None
normality_tests(rows) ==
    IF Len(rows) < 3
    THEN [shapiro_wilk_statistic |-> "None", shapiro_wilk_p_value |-> "None",
          is_normal_shapiro |-> "None"]
    ELSE [shapiro_wilk_statistic |-> "float", shapiro_wilk_p_value |-> "float",
          is_normal_shapiro |-> "bool"]

\* metrics.py lines 150-227
compute_advanced_statistics(d) ==
    [variance_analysis |->
        Table([col \in Range(numeric_cols) |-> [variance |-> var(d.rows, col)]]),
     distribution_analysis |->
        Table([col \in Range(numeric_cols) |->
            [skewness_is_nan |-> CountCol(d.rows, col) < 3,
             kurtosis_is_nan |-> CountCol(d.rows, col) < 4]]),
     normality_tests |->
        Table([col \in Range(numeric_cols) |-> normality_tests(d.rows)])]

\* metrics.py lines 289-305: groupby('Type') leaves rows without a Type out,
\* so looking the missing Type of df['Type'].unique() up raises KeyError
compute_equipment_performance_statistics(d) ==
    IF "" \in TypesOf(d)
    THEN [err |-> [exc |-> "KeyError", msg |-> "nan"]]
    ELSE [err   |-> NoError,
          stats |-> Table([equipment_type \in TypesOf(d) |->
                        [count |-> CountOfType(d, equipment_type)]])]

\* insights.py lines 5-7: value_counts() leaves NaN out
get_equipment_type_distribution(d) ==
    Table([equipment_type \in TypesOf(d) \ {""} |-> CountOfType(d, equipment_type)])

high_temperature_threshold == 100

\* insights.py lines 66-94
detect_high_temperature_equipment(d) ==
    [count |-> Cardinality({i \in DOMAIN d.rows :
                  RLe(Int2Rat(high_temperature_threshold), d.rows[i]["Temperature"])}),
     total_equipment |-> Len(d.rows)]

\* insights.py lines 24-47: a correlation is NaN unless both columns vary
correlation_is_nan(rows, col1, col2) ==
    \/ IsNaN(var(rows, col1)) \/ var(rows, col1) = Zero
    \/ IsNaN(var(rows, col2)) \/ var(rows, col2) = Zero

compute_correlation_matrix(d) ==
    [key_correlations |->
        [flowrate_temperature_is_nan |-> correlation_is_nan(d.rows, "Flowrate", "Temperature"),
         flowrate_pressure_is_nan    |-> correlation_is_nan(d.rows, "Flowrate", "Pressure"),
         pressure_temperature_is_nan |-> correlation_is_nan(d.rows, "Pressure", "Temperature")]]

top_n == 5

\* insights.py lines 119-191: of the narrative insights the model keeps the
\* record count and correlation_insights, which holds the key correlations
\* as the floats compute_correlation_matrix returned (lines 174-181; each
\* float is kept as <<"float", whether it is NaN>>)
generate_comprehensive_insights(d, correlations) ==
    [dataset_overview |-> [total_equipment |-> Len(d.rows)],
     correlation_insights |->
        [flowrate_temperature |->
            <<"float", correlations.key_correlations.flowrate_temperature_is_nan>>,
         flowrate_pressure |->
            <<"float", correlations.key_correlations.flowrate_pressure_is_nan>>,
         pressure_temperature |->
            <<"float", correlations.key_correlations.pressure_temperature_is_nan>>]]

\* insights.py lines 97-116: nlargest(5, metric) skips NaN; the model keeps
\* the length of each list
get_top_performers(d) ==
    Table([metric \in Range(numeric_cols) |->
        IF CountCol(d.rows, metric) < top_n THEN CountCol(d.rows, metric) ELSE top_n])

\* efficiency.py lines 202-249 and 252-272: idxmax() of the scores of a type
\* is NaN when every score is NaN, and subset.loc[NaN] raises
compute_efficiency_by_type(d, sc) ==
    IF \E i \in DOMAIN sc : IsNaN(sc[i].Efficiency_Score)
    THEN [err |-> [exc |-> "KeyError", msg |-> "nan"]]
    ELSE [err     |-> NoError,
          by_type |-> Table([equipment_type \in TypesOf(d) |->
                          [count |-> CountOfType(d, equipment_type)]])]

\* the keys of the report
ReportKeys ==
    {"summary_metrics", "type_metrics", "advanced_statistics", "performance_statistics",
     "distributions", "correlations", "high_temperature_analysis", "top_performers",
     "outliers", "efficiency", "comprehensive_insights", "dataset_info",
     "analysis_metadata"}

\* mutant: the report without its metadata
result_without_metadata(locals, d) ==
    [dataset_info              |-> [cleaned_size |-> Len(d.rows)],
     summary_metrics           |-> locals.basic_metrics,
     type_metrics              |-> locals.type_metrics,
     advanced_statistics       |-> locals.advanced_statistics,
     performance_statistics    |-> locals.performance_statistics,
     distributions             |-> [equipment_types |-> locals.type_distribution],
     correlations              |-> locals.correlations,
     high_temperature_analysis |-> locals.high_temp_equipment,
     top_performers            |-> locals.top_performers,
     outliers                  |-> [basic_analysis         |-> locals.outlier_analysis,
                                    comprehensive_analysis |-> locals.comprehensive_outliers,
                                    patterns               |-> locals.outlier_patterns],
     efficiency                |-> [rankings |-> locals.efficiency_rankings,
                                    by_type  |-> locals.efficiency_by_type],
     comprehensive_insights    |-> generate_comprehensive_insights(d, locals.correlations)]

\* orchestrator.py lines 86-134: the report built from the results of the
\* components
result(locals, d) ==
    [dataset_info              |-> [cleaned_size |-> Len(d.rows)],
     summary_metrics           |-> locals.basic_metrics,
     type_metrics              |-> locals.type_metrics,
     advanced_statistics       |-> locals.advanced_statistics,
     performance_statistics    |-> locals.performance_statistics,
     distributions             |-> [equipment_types |-> locals.type_distribution],
     correlations              |-> locals.correlations,
     high_temperature_analysis |-> locals.high_temp_equipment,
     top_performers            |-> locals.top_performers,
     outliers                  |-> [basic_analysis         |-> locals.outlier_analysis,
                                    comprehensive_analysis |-> locals.comprehensive_outliers,
                                    patterns               |-> locals.outlier_patterns],
     efficiency                |-> [rankings |-> locals.efficiency_rankings,
                                    by_type  |-> locals.efficiency_by_type],
     comprehensive_insights    |-> generate_comprehensive_insights(d, locals.correlations),
     analysis_metadata         |-> [analysis_version |-> "2.0"]]

---------------------------------------------------------------------------
(* Input files *)

MaxRows == 3

AllColumns == {"Equipment Name", "Type", "Flowrate", "Pressure", "Temperature"}

\* rows of the small files: the Type, Flowrate and Pressure cells may be
\* missing, Flowrate may also be unparseable text
SmallRows ==
    {[c \in AllColumns |->
        CASE c = "Equipment Name" -> "P1"
          [] c = "Type"           -> t
          [] c = "Flowrate"       -> fl
          [] c = "Pressure"       -> p
          [] OTHER                -> NumCell(1)] :
     t \in {"Pump", ""},
     fl \in {NumCell(1), NumCell(2), TextCell, EmptyCell},
     p \in {NumCell(1), EmptyCell}}

RowSeqs(S, n) == UNION {[1..k -> S] : k \in 0..n}

\* files with a complete header
SmallFiles == {[hdr |-> AllColumns, rows |-> r] : r \in RowSeqs(SmallRows, MaxRows)}

\* files for the outlier detectors: up to MaxOutlierRows rows that differ in
\* Pressure; the second row may share the first row's equipment name
MaxOutlierRows == 7

OutlierNames == <<"A", "B", "C", "D", "E", "F", "G", "H", "I", "J">>

OutlierFilesOf(n) ==
    {[hdr  |-> AllColumns,
      rows |-> [i \in 1..n |->
        [c \in AllColumns |->
            CASE c = "Equipment Name" -> IF i = 2 THEN second ELSE OutlierNames[i]
              [] c = "Type"           -> "Pump"
              [] c = "Flowrate"       -> NumCell(fl[i])
              [] c = "Pressure"       -> NumCell(i)
              [] OTHER                -> NumCell(1)]]] :
     second \in {"A", "B"}, fl \in [1..n -> {0, 1, 5}]}

OutlierFiles == UNION {OutlierFilesOf(n) : n \in 0..MaxOutlierRows}

\* files for the efficiency ranking: every numeric column varies, the
\* Temperature cell may be missing
MaxRankRows == 3

RankRows ==
    {[c \in AllColumns |->
        CASE c = "Equipment Name" -> "P1"
          [] c = "Type"           -> "Pump"
          [] c = "Flowrate"       -> fl
          [] c = "Pressure"       -> p
          [] OTHER                -> t] :
     fl \in {NumCell(1), NumCell(2)}, p \in {NumCell(1), NumCell(2)},
     t \in {NumCell(1), NumCell(2), EmptyCell}}

RankFiles == {[hdr |-> AllColumns, rows |-> r] : r \in RowSeqs(RankRows, MaxRankRows)}

\* files whose header lacks some required columns; one data row
BadHeaderFiles ==
    {[hdr |-> h,
      rows |-> <<[c \in h |-> IF c \in Range(numeric_cols) THEN NumCell(1) ELSE "P1"]>>] :
     h \in (SUBSET AllColumns) \ {AllColumns}}

---------------------------------------------------------------------------
(* The cleaning step alone, and cleaning applied to its own output *)

InitClean ==
    /\ file \in SmallFiles \cup BadHeaderFiles
    /\ pc = "start"
    /\ df = EmptyFrame
    /\ err = NoError
    /\ ran = {}
    /\ df2 = EmptyFrame
    /\ out = <<>>
    /\ NoUploads

\* analyze_equipment_data line 61: df_clean = load_and_clean_data(file_obj)
LoadAndClean ==
    /\ pc = "start"
    /\ \E r \in {load_and_clean_data(file)} :
        /\ err' = r.err
        /\ df' = r.df
        /\ pc' = IF r.err = NoError THEN "loaded" ELSE "failed"
    /\ UNCHANGED <<file, ran, df2, out>>
    /\ UNCHANGED <<web, widget>>

\* the cleaned table written back as CSV and cleaned again
Reclean ==
    /\ pc = "loaded"
    /\ \E r \in {load_and_clean_data(to_csv(df))} :
        /\ r.err = NoError
        /\ df2' = r.df
        /\ pc' = "recleaned"
    /\ UNCHANGED <<file, df, err, ran, out>>
    /\ UNCHANGED <<web, widget>>

NextClean == LoadAndClean \/ Reclean

SpecClean == InitClean /\ [][NextClean]_vars

---------------------------------------------------------------------------
(* analyze_equipment_data: the components called in sequence on the cleaned
   table.  ran holds the components that have been entered. *)

Init ==
    /\ file \in SmallFiles \cup BadHeaderFiles
    /\ pc = "start"
    /\ df = EmptyFrame
    /\ err = NoError
    /\ ran = {}
    /\ df2 = EmptyFrame
    /\ out = <<>>
    /\ NoUploads

Fail(e) == pc' = "failed" /\ err' = e

\* lines 63-66: the four metrics functions.  compute_equipment_performance_statistics
\* looks every value of df['Type'].unique(), NaN included, up in a groupby
\* result that has no NaN group.
Metrics ==
    /\ pc = "loaded"
    /\ ran' = ran \cup {"metrics"}
    /\ \E ps \in {compute_equipment_performance_statistics(df)} :
        IF ps.err # NoError
        THEN Fail(ps.err) /\ out' = out
        ELSE /\ pc' = "metrics" /\ err' = err
             /\ out' = [basic_metrics          |-> compute_basic_metrics(df),
                        type_metrics           |-> compute_type_metrics(df),
                        advanced_statistics    |-> compute_advanced_statistics(df),
                        performance_statistics |-> ps.stats]
    /\ UNCHANGED <<file, df, df2>>
    /\ UNCHANGED <<web, widget>>

\* lines 68-72: the five insights functions
Insights ==
    /\ pc = "metrics"
    /\ ran' = ran \cup {"insights"}
    /\ pc' = "insights"
    /\ out' = [type_distribution   |-> get_equipment_type_distribution(df),
               correlations        |-> compute_correlation_matrix(df),
               high_temp_equipment |-> detect_high_temperature_equipment(df),
               top_performers      |-> get_top_performers(df)] @@ out
    /\ UNCHANGED <<file, df, err, df2>>
    /\ UNCHANGED <<web, widget>>

\* the "outliers" section of the report
OutlierSection(d) ==
    [basic_analysis         |-> detect_outliers_iqr(d),
     comprehensive_analysis |-> comprehensive_outlier_analysis(d),
     patterns               |-> analyze_outlier_patterns(d)]

\* lines 74-76: the three outlier functions
Outliers ==
    /\ pc = "insights"
    /\ ran' = ran \cup {"outliers"}
    /\ \E o \in {OutlierSection(df)} :
        IF o.patterns.err # NoError
        THEN Fail(o.patterns.err) /\ out' = out
        ELSE /\ pc' = "outliers" /\ err' = err
             /\ out' = [outlier_analysis       |-> o.basic_analysis,
                        comprehensive_outliers |-> o.comprehensive_analysis,
                        outlier_patterns       |-> o.patterns] @@ out
    /\ UNCHANGED <<file, df, df2>>
    /\ UNCHANGED <<web, widget>>

EmptyScalerError ==
    [exc |-> "ValueError",
     msg |-> "Found array with 0 sample(s) while a minimum of 1 is required by MinMaxScaler."]

\* lines 78-80: the efficiency functions; MinMaxScaler refuses an empty table
\* and the per-type analysis fails on scores that are all NaN
Efficiency ==
    /\ pc = "outliers"
    /\ ran' = ran \cup {"efficiency"}
    /\ IF Len(df.rows) = 0
       THEN Fail(EmptyScalerError) /\ out' = out /\ df' = df
       ELSE /\ df' = table_after_normalize(df)
            /\ \E r \in rank_equipment_by_efficiency(df),
                  bt \in {compute_efficiency_by_type(df, compute_efficiency_scores(df))} :
                IF bt.err # NoError
                THEN Fail(bt.err) /\ out' = out
                ELSE /\ pc' = "efficiency" /\ err' = err
                     /\ out' = [efficiency_rankings |-> r,
                                efficiency_by_type  |-> bt.by_type] @@ out
    /\ UNCHANGED <<file, df2>>
    /\ UNCHANGED <<web, widget>>

\* lines 82-137: the narrative insights and the assembled report
Assemble ==
    /\ pc = "efficiency"
    /\ pc' = "done"
    /\ out' = result(out, df)
    /\ UNCHANGED <<file, df, err, ran, df2>>
    /\ UNCHANGED <<web, widget>>

Next == LoadAndClean \/ Metrics \/ Insights \/ Outliers \/ Efficiency \/ Assemble

Spec == Init /\ [][Next]_vars

---------------------------------------------------------------------------
(* The outlier functions called on a cleaned table *)

InitOutliers ==
    /\ file \in OutlierFiles
    /\ pc = "start"
    /\ df = EmptyFrame
    /\ err = NoError
    /\ ran = {}
    /\ df2 = EmptyFrame
    /\ out = <<>>
    /\ NoUploads

AnalyzeOutliers ==
    /\ pc = "loaded"
    /\ ran' = ran \cup {"outliers"}
    /\ \E o \in {OutlierSection(df)} :
        IF o.patterns.err # NoError
        THEN Fail(o.patterns.err) /\ out' = out
        ELSE pc' = "analyzed" /\ err' = err /\ out' = [outliers |-> o]
    /\ UNCHANGED <<file, df, df2>>
    /\ UNCHANGED <<web, widget>>

NextOutliers == LoadAndClean \/ AnalyzeOutliers

SpecOutliers == InitOutliers /\ [][NextOutliers]_vars

---------------------------------------------------------------------------
(* rank_equipment_by_efficiency called on a cleaned table *)

InitRank ==
    /\ file \in RankFiles
    /\ pc = "start"
    /\ df = EmptyFrame
    /\ err = NoError
    /\ ran = {}
    /\ df2 = EmptyFrame
    /\ out = <<>>
    /\ NoUploads

RankEquipment ==
    /\ pc = "loaded"
    /\ ran' = ran \cup {"efficiency"}
    /\ IF Len(df.rows) = 0
       THEN Fail(EmptyScalerError) /\ out' = out
       ELSE /\ pc' = "ranked" /\ err' = err
            /\ \E r \in rank_equipment_by_efficiency(df) : out' = [rankings |-> r]
    /\ UNCHANGED <<file, df, df2>>
    /\ UNCHANGED <<web, widget>>

NextRank == LoadAndClean \/ RankEquipment

SpecRank == InitRank /\ [][NextRank]_vars

---------------------------------------------------------------------------
(* The score formulas of compute_efficiency_scores applied to one row of the
   normalized table *)

NormSteps == 4

\* MinMaxScaler output: a value of [0, 1], or NaN for a column without values
NormValues == {Rat(k, NormSteps) : k \in 0..NormSteps} \cup {NaN}

\* the six types the code names, one it does not, and a missing Type cell
EquipmentTypes ==
    {"Pump", "Compressor", "HeatExchanger", "Reactor", "Condenser", "Valve", "Mixer", ""}

NamedTypes == {"Pump", "Compressor", "HeatExchanger", "Reactor", "Condenser", "Valve"}

InitScore ==
    /\ file \in {[type |-> t,
                  nr   |-> [Flowrate_norm |-> f, Pressure_norm |-> p, Temperature_norm |-> tn]] :
                 t \in EquipmentTypes, f \in NormValues, p \in NormValues, tn \in NormValues}
    /\ pc = "start"
    /\ df = EmptyFrame
    /\ err = NoError
    /\ ran = {}
    /\ df2 = EmptyFrame
    /\ out = <<>>
    /\ NoUploads

\* efficiency.py lines 31-46: the four scores of the row
ScoreRow ==
    /\ pc = "start"
    /\ pc' = "scored"
    /\ out' = [Efficiency_Score     |-> efficiency_score(file.nr),
               Performance_Index    |-> calculate_performance_index(file.nr),
               Equipment_Efficiency |->
                   calculate_equipment_specific_efficiency(file.type, file.nr),
               Operational_Score    |-> calculate_operational_score(file.nr)]
    /\ UNCHANGED <<file, df, err, ran, df2>>
    /\ UNCHANGED <<web, widget>>

NextScore == ScoreRow

SpecScore == InitScore /\ [][NextScore]_vars

---------------------------------------------------------------------------
(* normalize_data and the score formulas in floating-point arithmetic:    *)
(* every operation returns the nearest binary float of Precision          *)
(* significant bits, ties to even (numpy's float64 has 53)                *)

Precision == 5

MaxFloatRows == 2

round_half_even(n, d) ==
    With(n \div d, LAMBDA m :
        IF 2 * (n - m * d) > d \/ (2 * (n - m * d) = d /\ m % 2 = 1)
        THEN m + 1 ELSE m)

\* n / d * 2^e for n, d > 0, rounded to Precision significant bits
RECURSIVE RoundScaled(_, _, _)
RoundScaled(n, d, e) ==
    IF n >= 2^Precision * d THEN RoundScaled(n, 2 * d, e + 1)
    ELSE IF n < 2^(Precision - 1) * d THEN RoundScaled(2 * n, d, e - 1)
    ELSE IF e >= 0 THEN Rat(round_half_even(n, d) * 2^e, 1)
    ELSE Rat(round_half_even(n, d), 2^(-e))

\* the float nearest to x
Rounded(x) ==
    IF IsNaN(x) \/ x[1] = 0 THEN x
    ELSE With(RoundScaled(Abs(x[1]), x[2], 0), LAMBDA r :
            IF x[1] < 0 THEN <<-r[1], r[2]>> ELSE r)

FAdd(x, y) == Rounded(RAdd(x, y))

FSub(x, y) == Rounded(RSub(x, y))

FMul(x, y) == Rounded(RMul(x, y))

\* efficiency.py lines 12-13, MinMaxScaler with feature_range (0, 1):
\* fit sets scale_ = 1 / (max - min), with 1 in place of a zero range, and
\* min_ = 0 - min * scale_; transform returns x * scale_ + min_
fit_transform(lo, hi, x) ==
    With(FSub(hi, lo), LAMBDA data_range :
    With(Rounded(RDiv(One, IF data_range = Zero THEN One ELSE data_range)),
         LAMBDA scale_ :
    With(FSub(Zero, FMul(lo, scale_)), LAMBDA min_ :
        FAdd(FMul(x, scale_), min_))))

\* 1 - abs(x - target)
closeness_float(x, target) == FSub(One, RAbs(FSub(x, Rounded(target))))

Weighted_float(a, wa, b, wb, c, wc) ==
    FAdd(FAdd(FMul(a, Rounded(wa)), FMul(b, Rounded(wb))), FMul(c, Rounded(wc)))

\* efficiency.py lines 6-22 and 25-48, 51-62, 100-113: the _norm columns and
\* the three scores that are not clamped, one record per row
compute_efficiency_scores_float(d) ==
    With(Table([c \in Range(numeric_cols) |-> Rounded(colmin(d.rows, c))]), LAMBDA lo :
    With(Table([c \in Range(numeric_cols) |-> Rounded(colmax(d.rows, c))]), LAMBDA hi :
        Table([i \in DOMAIN d.rows |->
            With(Table([c \in Range(numeric_cols) |->
                        fit_transform(lo[c], hi[c], Rounded(d.rows[i][c]))]),
                 LAMBDA n :
                    [Flowrate_norm    |-> n["Flowrate"],
                     Pressure_norm    |-> n["Pressure"],
                     Temperature_norm |-> n["Temperature"],
                     Efficiency_Score |->
                         Weighted_float(n["Flowrate"], <<2, 5>>, n["Pressure"], <<3, 10>>,
                             closeness_float(n["Temperature"], <<7, 10>>), <<3, 10>>),
                     Performance_Index |->
                         Weighted_float(n["Flowrate"], <<7, 20>>, n["Pressure"], <<7, 20>>,
                             np_maximum0(closeness_float(n["Temperature"], <<3, 5>>)),
                             <<3, 10>>),
                     Operational_Score |->
                         Weighted_float(
                             np_maximum0(closeness_float(n["Flowrate"], <<3, 4>>)), <<2, 5>>,
                             np_maximum0(closeness_float(n["Pressure"], <<13, 20>>)),
                             <<3, 10>>,
                             np_maximum0(closeness_float(n["Temperature"], <<7, 10>>)),
                             <<3, 10>>)])])))

\* records whose values are floats of a few bits
FloatRows ==
    {[c \in AllColumns |->
        CASE c = "Equipment Name" -> "P1"
          [] c = "Type"           -> "Pump"
          [] c = "Flowrate"       -> NumCell(f)
          [] c = "Pressure"       -> NumCell(p)
          [] OTHER                -> NumCell(t)] :
     f \in {1, 4, 6, 7}, p \in {1, 7}, t \in {1, 7}}

FloatFiles == {[hdr |-> AllColumns, rows |-> r] : r \in RowSeqs(FloatRows, MaxFloatRows)}

InitFloat ==
    /\ file \in FloatFiles
    /\ pc = "start"
    /\ df = EmptyFrame
    /\ err = NoError
    /\ ran = {}
    /\ df2 = EmptyFrame
    /\ out = <<>>
    /\ NoUploads

\* efficiency.py lines 25-48
ComputeScores ==
    /\ pc = "loaded"
    /\ ran' = ran \cup {"efficiency"}
    /\ IF Len(df.rows) = 0
       THEN Fail(EmptyScalerError) /\ out' = out
       ELSE /\ pc' = "scored" /\ err' = err
            /\ out' = compute_efficiency_scores_float(df)
    /\ UNCHANGED <<file, df, df2>>
    /\ UNCHANGED <<web, widget>>

NextFloat == LoadAndClean \/ ComputeScores

SpecFloat == InitFloat /\ [][NextFloat]_vars

---------------------------------------------------------------------------
(* convert_to_json_serializable.  A Python value is a pair of its type and
   its content; a float is a rational, NaN or an infinity. *)

PosInf == <<1, 0>>
NegInf == <<-1, 0>>

\* np.isnan(x) or np.isinf(x)
NonFinite(x) == x \in {NaN, PosInf, NegInf}

TypeOf(obj) == obj[1]
ValueOf(obj) == obj[2]

PyNone == <<"NoneType", 0>>
PyFloat(x) == <<"float", x>>
PyList(items) == <<"list", items>>

\* ndarray.tolist() of a one-dimensional float64 array: a list of Python
\* floats, NaN and infinities included
tolist(a) == PyList([i \in DOMAIN ValueOf(a) |-> PyFloat(ValueOf(a)[i])])

\* orchestrator.py lines 10-57, branch by branch in the order of the code
RECURSIVE convert_to_json_serializable(_)
convert_to_json_serializable(obj) ==
    CASE TypeOf(obj) = "dict" ->
            <<"dict", [key \in DOMAIN ValueOf(obj) |->
                          convert_to_json_serializable(ValueOf(obj)[key])]>>
      [] TypeOf(obj) = "list" ->
            PyList([i \in DOMAIN ValueOf(obj) |->
                       convert_to_json_serializable(ValueOf(obj)[i])])
      [] TypeOf(obj) = "tuple" ->
            convert_to_json_serializable(PyList(ValueOf(obj)))
      [] TypeOf(obj) = "np.int64" -> <<"int", ValueOf(obj)>>
      [] TypeOf(obj) = "np.float64" ->
            IF NonFinite(ValueOf(obj)) THEN PyNone ELSE PyFloat(ValueOf(obj))
      [] TypeOf(obj) = "np.ndarray" -> tolist(obj)
      [] TypeOf(obj) = "np.bool_" -> <<"bool", ValueOf(obj)>>
      [] TypeOf(obj) \in {"NoneType", "str", "int", "bool"} -> obj
      [] TypeOf(obj) = "float" -> IF NonFinite(ValueOf(obj)) THEN PyNone ELSE obj
      [] OTHER -> <<"str", "object">>

\* scalars: Python and NumPy, finite and not
FloatValues == {<<3, 2>>, NaN, PosInf, NegInf}

Scalars ==
    {PyNone, <<"str", "a">>, <<"int", 1>>, <<"bool", TRUE>>,
     <<"np.int64", 1>>, <<"np.bool_", TRUE>>}
    \cup {PyFloat(x) : x \in FloatValues}
    \cup {<<"np.float64", x>> : x \in FloatValues}

\* one-dimensional float64 arrays of one or two elements
Arrays ==
    {<<"np.ndarray", <<x>>>> : x \in FloatValues}
    \cup {<<"np.ndarray", <<<<3, 2>>, x>>>> : x \in FloatValues}

MaxDepth == 2

\* trees of containers up to the given depth over the scalars and arrays
RECURSIVE Trees(_)
Trees(depth) ==
    IF depth = 0 THEN Scalars \cup Arrays
    ELSE With(Trees(depth - 1), LAMBDA sub :
            sub
            \cup {PyList(<<>>), <<"tuple", <<>>>>}
            \cup {PyList(<<x>>) : x \in sub}
            \cup {<<"tuple", <<x>>>> : x \in sub}
            \cup {<<"dict", [key \in {"k"} |-> x]>> : x \in sub}
            \cup {PyList(<<x, y>>) : x \in Scalars, y \in Scalars})

InitJson ==
    /\ file \in Trees(MaxDepth)
    /\ pc = "start"
    /\ df = EmptyFrame
    /\ err = NoError
    /\ ran = {}
    /\ df2 = <<>>
    /\ out = <<>>
    /\ NoUploads

\* line 137: convert_to_json_serializable(result)
Convert ==
    /\ pc = "start"
    /\ pc' = "converted"
    /\ out' = convert_to_json_serializable(file)
    /\ UNCHANGED <<file, df, err, ran, df2>>
    /\ UNCHANGED <<web, widget>>

\* the pass applied to its own output
ConvertAgain ==
    /\ pc = "converted"
    /\ pc' = "reconverted"
    /\ df2' = convert_to_json_serializable(out)
    /\ UNCHANGED <<file, df, err, ran, out>>
    /\ UNCHANGED <<web, widget>>

NextJson == Convert \/ ConvertAgain

SpecJson == InitJson /\ [][NextJson]_vars

---------------------------------------------------------------------------
(* The upload request: api/views.py EquipmentAnalysisView.post,            *)
(* api/models.py DatasetUpload, and the file selection of the desktop      *)
(* client.  Each database query of a request is a step of its own; the     *)
(* steps of different requests interleave freely (autocommit).             *)

\* orchestrator.py lines 60-137 as one call: the outcomes of
\* analyze_equipment_data(file_obj), an exception or a report
analyze_equipment_data(f) ==
    With(load_and_clean_data(f), LAMBDA l :
      IF l.err # NoError THEN {[err |-> l.err, report |-> <<>>]}
      ELSE
      With(compute_equipment_performance_statistics(l.df), LAMBDA ps :
      IF ps.err # NoError THEN {[err |-> ps.err, report |-> <<>>]}
      ELSE
      With(OutlierSection(l.df), LAMBDA o :
      IF o.patterns.err # NoError THEN {[err |-> o.patterns.err, report |-> <<>>]}
      ELSE IF Len(l.df.rows) = 0 THEN {[err |-> EmptyScalerError, report |-> <<>>]}
      ELSE
      With(compute_efficiency_by_type(l.df, compute_efficiency_scores(l.df)), LAMBDA bt :
      IF bt.err # NoError THEN {[err |-> bt.err, report |-> <<>>]}
      ELSE
        {[err |-> NoError,
          report |-> result(
            [basic_metrics          |-> compute_basic_metrics(l.df),
             type_metrics           |-> compute_type_metrics(l.df),
             advanced_statistics    |-> compute_advanced_statistics(l.df),
             performance_statistics |-> ps.stats,
             type_distribution      |-> get_equipment_type_distribution(l.df),
             correlations           |-> compute_correlation_matrix(l.df),
             high_temp_equipment    |-> detect_high_temperature_equipment(l.df),
             top_performers         |-> get_top_performers(l.df),
             outlier_analysis       |-> o.basic_analysis,
             comprehensive_outliers |-> o.comprehensive_analysis,
             outlier_patterns       |-> o.patterns,
             efficiency_rankings    |-> r,
             efficiency_by_type     |-> bt.by_type], l.df)] :
         r \in rank_equipment_by_efficiency(l.df)}))))

\* config.py line 43
MAX_FILE_SIZE_MB == 10

\* upload_widget.py line 341: 10 * 1024 * 1024
MaxFileSize == MAX_FILE_SIZE_MB * 1024 * 1024

\* models.py lines 23-24
history_cap == 5

\* str.endswith on names held as sequences of characters
endswith(name, suffix) ==
    /\ Len(name) >= Len(suffix)
    /\ SubSeq(name, Len(name) - Len(suffix) + 1, Len(name)) = suffix

dot_csv == <<".", "c", "s", "v">>

HTTP_200_OK == 200

HTTP_400_BAD_REQUEST == 400

HTTP_500_INTERNAL_SERVER_ERROR == 500

\* str(e) of the UnicodeDecodeError, a ValueError, that line 41 raises on
\* bytes that are not UTF-8
UnicodeDecodeErrorText ==
    "'utf-8' codec can't decode byte 0xff in position 0: invalid start byte"

\* views.py lines 43 and 62-71 where a failed analysis is given an empty
\* report instead of an error response
post_until_analysis_fallback(upload) ==
    IF ~upload.has_file
    THEN {[pc |-> "responded", status |-> HTTP_400_BAD_REQUEST,
           error |-> "No file provided", analysis_results |-> <<>>, invoked |-> FALSE]}
    ELSE IF ~endswith(upload.name, dot_csv)
    THEN {[pc |-> "responded", status |-> HTTP_400_BAD_REQUEST,
           error |-> "File must be a CSV", analysis_results |-> <<>>, invoked |-> FALSE]}
    ELSE IF ~upload.utf8
    THEN {[pc |-> "responded", status |-> HTTP_400_BAD_REQUEST,
           error |-> UnicodeDecodeErrorText, analysis_results |-> <<>>,
           invoked |-> FALSE]}
    ELSE {[pc |-> "analyzed", status |-> 0, error |-> "",
           analysis_results |-> IF o.err = NoError THEN o.report
                                ELSE [dataset_info |-> [cleaned_size |-> 0]],
           invoked |-> TRUE] :
          o \in analyze_equipment_data(upload.content)}

\* views.py lines 25-43 and 62-71: the request up to the return of
\* analyze_equipment_data; ValueError (UnicodeDecodeError is one) gives 400
\* with the message, any other exception 500
post_until_analysis(upload) ==
    IF ~upload.has_file
    THEN {[pc |-> "responded", status |-> HTTP_400_BAD_REQUEST,
           error |-> "No file provided", analysis_results |-> <<>>, invoked |-> FALSE]}
    ELSE IF ~endswith(upload.name, dot_csv)
    THEN {[pc |-> "responded", status |-> HTTP_400_BAD_REQUEST,
           error |-> "File must be a CSV", analysis_results |-> <<>>, invoked |-> FALSE]}
    ELSE IF ~upload.utf8
    THEN {[pc |-> "responded", status |-> HTTP_400_BAD_REQUEST,
           error |-> UnicodeDecodeErrorText, analysis_results |-> <<>>,
           invoked |-> FALSE]}
    ELSE {IF o.err = NoError
          THEN [pc |-> "analyzed", status |-> 0, error |-> "",
                analysis_results |-> o.report, invoked |-> TRUE]
          ELSE IF o.err.exc = "ValueError"
          THEN [pc |-> "responded", status |-> HTTP_400_BAD_REQUEST,
                error |-> o.err.msg, analysis_results |-> <<>>, invoked |-> TRUE]
          ELSE [pc |-> "responded", status |-> HTTP_500_INTERNAL_SERVER_ERROR,
                error |-> "Internal server error", analysis_results |-> <<>>,
                invoked |-> TRUE] :
          o \in analyze_equipment_data(upload.content)}

\* models.py line 22: cls.objects.filter(user=user)
filter_user(records, user) == {x \in records : x.user = user}

\* Meta.ordering = ['-upload_date'] (models.py line 15): the ids of the
\* records, latest first
RECURSIVE order_by_upload_date_desc(_)
order_by_upload_date_desc(records) ==
    IF records = {} THEN <<>>
    ELSE LET latest == CHOOSE x \in records :
                           \A y \in records : y.upload_date <= x.upload_date
         IN  <<latest.id>> \o order_by_upload_date_desc(records \ {latest})

\* models.py line 24: user_records[5:]
old_records(records, user) ==
    With(order_by_upload_date_desc(filter_user(records, user)), LAMBDA ids :
        SubSeq(ids, history_cap + 1, Len(ids)))

(* Requests and stored history the runs start from *)

MaxRequests == 2

Users == {"u1", "u2"}

GoodContent ==
    [hdr |-> AllColumns,
     rows |-> <<[c \in AllColumns |->
                   CASE c = "Equipment Name" -> "P1"
                     [] c = "Type"           -> "Pump"
                     [] OTHER                -> NumCell(1)]>>]

\* the same record without a Type: the metrics step raises KeyError
NoTypeContent ==
    [hdr |-> AllColumns,
     rows |-> <<[c \in AllColumns |->
                   CASE c = "Equipment Name" -> "P1"
                     [] c = "Type"           -> ""
                     [] OTHER                -> NumCell(1)]>>]

\* no Temperature column: the loader raises ValueError
NoTemperatureContent ==
    [hdr |-> AllColumns \ {"Temperature"},
     rows |-> <<[c \in AllColumns \ {"Temperature"} |->
                   CASE c = "Equipment Name" -> "P1"
                     [] c = "Type"           -> "Pump"
                     [] OTHER                -> NumCell(1)]>>]

\* a header and no record: MinMaxScaler raises ValueError
HeaderOnlyContent == [hdr |-> AllColumns, rows |-> <<>>]

Uploads ==
    {[has_file |-> TRUE, name |-> <<"a">> \o dot_csv, size |-> 1024, utf8 |-> TRUE,
      content |-> c] :
        c \in {GoodContent, NoTypeContent, NoTemperatureContent, HeaderOnlyContent}}
    \cup
    {[has_file |-> TRUE, name |-> <<"a", ".", "t", "x", "t">>, size |-> 1024,
      utf8 |-> TRUE, content |-> GoodContent],
     [has_file |-> TRUE, name |-> <<"a">> \o dot_csv, size |-> MaxFileSize + 1,
      utf8 |-> TRUE, content |-> GoodContent],
     [has_file |-> TRUE, name |-> <<"a">> \o dot_csv, size |-> 1024,
      utf8 |-> FALSE, content |-> GoodContent],
     [has_file |-> FALSE, name |-> <<>>, size |-> 0, utf8 |-> TRUE,
      content |-> GoodContent]}

\* a request as it arrives: from the desktop client, where the file has
\* just been selected, or sent straight to the API
NewRequests ==
    {q \in
      {[user |-> u, via |-> v, upload |-> up,
       pc |-> IF v = "desktop" THEN "selected" ELSE "received",
       status |-> 0, error |-> "", analysis_results |-> <<>>, invoked |-> FALSE,
       upload_date |-> 0, upload_id |-> 0, old_records |-> <<>>] :
      u \in Users, v \in {"desktop", "http"}, up \in Uploads} :
     q.via = "http" \/ q.upload.has_file}

GoodReport == (CHOOSE o \in analyze_equipment_data(GoodContent) : TRUE).report

\* the history user "u1" has after k earlier uploads of the good file
StoredHistory(k) ==
    {[id |-> i, user |-> "u1", filename |-> <<"a">> \o dot_csv, file_size |-> 1024,
      equipment_count |-> 1, summary_data |-> GoodReport, upload_date |-> i] :
     i \in 1..k}

InitUpload ==
    /\ file = GoodContent
    /\ pc = "start"
    /\ df = EmptyFrame
    /\ err = NoError
    /\ ran = {}
    /\ df2 = EmptyFrame
    /\ out = <<>>
    /\ req \in [1..MaxRequests -> NewRequests]
    /\ \E k \in {0, history_cap} :
        /\ db = StoredHistory(k)
        /\ now = k
        /\ next_id = k + 1
    /\ resp = <<>>
    /\ widget = UploadWidget(FALSE)

\* upload_widget.py lines 300-355 and 357-381: a selected file over 10MB
\* disables the upload button, any other file is sent
SelectFile(r) ==
    /\ req[r].pc = "selected"
    /\ req' = [req EXCEPT ![r].pc =
                  IF req[r].upload.size > MaxFileSize THEN "blocked" ELSE "received"]
    /\ UNCHANGED <<file, pc, df, err, ran, df2, out, db, now, next_id, resp, widget>>

\* views.py lines 25-43, 62-71
Post(r) ==
    /\ req[r].pc = "received"
    /\ \E o \in post_until_analysis(req[r].upload) :
        req' = [req EXCEPT ![r].pc = o.pc, ![r].status = o.status,
                           ![r].error = o.error,
                           ![r].analysis_results = o.analysis_results,
                           ![r].invoked = o.invoked]
    /\ UNCHANGED <<file, pc, df, err, ran, df2, out, db, now, next_id, resp, widget>>

\* views.py line 45, models.py line 9: the new instance takes
\* upload_date = timezone.now()
Instantiate(r) ==
    /\ req[r].pc = "analyzed"
    /\ now' = now + 1
    /\ req' = [req EXCEPT ![r].pc = "instantiated", ![r].upload_date = now + 1]
    /\ UNCHANGED <<file, pc, df, err, ran, df2, out, db, next_id, resp, widget>>

\* views.py lines 45-51: the INSERT of objects.create
InsertRecord(r) ==
    /\ req[r].pc = "instantiated"
    /\ db' = db \cup {[id |-> next_id, user |-> req[r].user,
                       filename |-> req[r].upload.name,
                       file_size |-> req[r].upload.size,
                       equipment_count |-> req[r].analysis_results.dataset_info.cleaned_size,
                       summary_data |-> req[r].analysis_results,
                       upload_date |-> req[r].upload_date]}
    /\ next_id' = next_id + 1
    /\ req' = [req EXCEPT ![r].pc = "created", ![r].upload_id = next_id]
    /\ UNCHANGED <<file, pc, df, err, ran, df2, out, now, resp, widget>>

\* models.py lines 22-23: user_records.count() > 5; views.py lines 55-60
\* when there is nothing to delete
CleanupCount(r) ==
    /\ req[r].pc = "created"
    /\ req' = IF Cardinality(filter_user(db, req[r].user)) > history_cap
              THEN [req EXCEPT ![r].pc = "slicing"]
              ELSE [req EXCEPT ![r].pc = "responded", ![r].status = HTTP_200_OK]
    /\ UNCHANGED <<file, pc, df, err, ran, df2, out, db, now, next_id, resp, widget>>

\* models.py lines 24-25: the query of user_records[5:]
CleanupSlice(r) ==
    /\ req[r].pc = "slicing"
    /\ \E ids \in {old_records(db, req[r].user)} :
        req' = IF ids = <<>>
               THEN [req EXCEPT ![r].pc = "responded", ![r].status = HTTP_200_OK]
               ELSE [req EXCEPT ![r].pc = "deleting", ![r].old_records = ids]
    /\ UNCHANGED <<file, pc, df, err, ran, df2, out, db, now, next_id, resp, widget>>

\* models.py line 26: record.delete(), one DELETE by primary key; after
\* the last one views.py lines 55-60 return the response
DeleteRecord(r) ==
    /\ req[r].pc = "deleting"
    /\ db' = {x \in db : x.id # Head(req[r].old_records)}
    /\ req' = IF Len(req[r].old_records) = 1
              THEN [req EXCEPT ![r].pc = "responded", ![r].status = HTTP_200_OK,
                               ![r].old_records = <<>>]
              ELSE [req EXCEPT ![r].old_records = Tail(req[r].old_records)]
    /\ UNCHANGED <<file, pc, df, err, ran, df2, out, now, next_id, resp, widget>>

HTTP_404_NOT_FOUND == 404

\* the status rest_framework's APIView gives a method the view does not
\* define
HTTP_405_METHOD_NOT_ALLOWED == 405

HTTP_204_NO_CONTENT == 204

\* the methods DatasetDetailView defines (views.py lines 105-130)
DatasetDetailView_methods == {"get"}

\* objects.get(id=dataset_id) without the user
get_dataset_of_any_user(records, dataset_id, user) ==
    {x \in records : x.id = dataset_id}

\* views.py line 111: DatasetUpload.objects.get(id=dataset_id, user=request.user)
get_dataset(records, dataset_id, user) ==
    {x \in records : x.id = dataset_id /\ x.user = user}

\* views.py lines 77-97: DatasetHistoryView.get, the ids of the user's
\* latest five records
HistoryGet(u) ==
    /\ resp' = [view |-> "history", user |-> u, dataset_id |-> 0, status |-> HTTP_200_OK,
                datasets |-> SubSeq(order_by_upload_date_desc(filter_user(db, u)), 1,
                                    IF Cardinality(filter_user(db, u)) < history_cap
                                    THEN Cardinality(filter_user(db, u)) ELSE history_cap),
                returned |-> TRUE]
    /\ UNCHANGED <<file, pc, df, err, ran, df2, out, req, db, now, next_id, widget>>

\* views.py lines 109-124: DatasetDetailView.get
DetailGet(u, dataset_id) ==
    /\ \E found \in {get_dataset(db, dataset_id, u)} :
        resp' = IF found = {}
                THEN [view |-> "detail", user |-> u, dataset_id |-> dataset_id, status |-> HTTP_404_NOT_FOUND,
                      datasets |-> <<>>, returned |-> FALSE]
                ELSE [view |-> "detail", user |-> u, dataset_id |-> dataset_id, status |-> HTTP_200_OK,
                      datasets |-> <<dataset_id>>, returned |-> TRUE]
    /\ UNCHANGED <<file, pc, df, err, ran, df2, out, req, db, now, next_id, widget>>

\* client.py lines 146-157: APIClient.delete_dataset sends DELETE to
\* /api/dataset/<id>/ and returns status_code == 204; the view has no delete
\* method, so the request is answered 405 and nothing is removed
DeleteDataset(u, dataset_id) ==
    /\ IF "delete" \in DatasetDetailView_methods
       THEN /\ db' = db \ get_dataset(db, dataset_id, u)
            /\ resp' = [view |-> "delete", user |-> u, dataset_id |-> dataset_id,
                        status |-> HTTP_204_NO_CONTENT,
                        datasets |-> <<dataset_id>>, returned |-> TRUE]
       ELSE /\ db' = db
            /\ resp' = [view |-> "delete", user |-> u, dataset_id |-> dataset_id,
                        status |-> HTTP_405_METHOD_NOT_ALLOWED,
                        datasets |-> <<dataset_id>>,
                        returned |-> (HTTP_405_METHOD_NOT_ALLOWED = HTTP_204_NO_CONTENT)]
    /\ UNCHANGED <<file, pc, df, err, ran, df2, out, req, now, next_id, widget>>

NextUpload ==
    \E r \in 1..MaxRequests :
        \/ SelectFile(r)
        \/ Post(r)
        \/ Instantiate(r)
        \/ InsertRecord(r)
        \/ CleanupCount(r)
        \/ CleanupSlice(r)
        \/ DeleteRecord(r)

SpecUpload == InitUpload /\ [][NextUpload]_vars

\* uploads of the good file by either user, straight to the API, together
\* with history, detail and delete requests
InitStore ==
    /\ InitUpload
    /\ \A r \in DOMAIN req :
          /\ req[r].via = "http"
          /\ req[r].upload.content = GoodContent
          /\ req[r].upload.utf8
          /\ req[r].upload.has_file
          /\ req[r].upload.size = 1024
          /\ endswith(req[r].upload.name, dot_csv)

NextStore ==
    \/ \E r \in 1..MaxRequests :
          \/ Post(r)
          \/ Instantiate(r)
          \/ InsertRecord(r)
          \/ CleanupCount(r)
          \/ CleanupSlice(r)
          \/ DeleteRecord(r)
    \/ \E u \in Users : HistoryGet(u)
    \/ \E u \in Users, dataset_id \in 1..(history_cap + MaxRequests) :
          \/ DetailGet(u, dataset_id)
          \/ DeleteDataset(u, dataset_id)

SpecStore == InitStore /\ [][NextStore]_vars

---------------------------------------------------------------------------
(* The upload widget of the desktop client.  Its handlers run one at a    *)
(* time in the GUI thread; each UploadWorker runs in a thread of its own  *)
(* and its success and error signals are delivered to the GUI thread      *)
(* later, as queued calls of on_upload_success and on_upload_error.       *)

\* the uploads started in one run
MaxWorkers == 3

\* the files the user can pick: a small .csv, a small .txt, a .csv over 10MB
WidgetFiles ==
    {u \in Uploads : u.has_file /\ u.utf8 /\ u.content = GoodContent}

\* upload_widget.py lines 300-355
set_selected_file(w, file_path) ==
    With([w EXCEPT !.selected_file = file_path, !.upload_button = TRUE],
         LAMBDA w1 :
            IF file_path.size > MaxFileSize
            THEN [w1 EXCEPT !.upload_button = FALSE]
            ELSE w1)

\* upload_widget.py lines 457-466
set_uploading(w, uploading) == [w EXCEPT !.upload_button = ~uploading]

\* upload_widget.py lines 427-455
reset_upload(w) == [w EXCEPT !.selected_file = <<>>, !.upload_button = FALSE]

\* client.py lines 74-91: the result is returned for a 200 response, any
\* other response and any failure to reach the server raise an exception
upload_and_analyze(file_path) ==
    {IF o.pc = "analyzed" THEN "success" ELSE "error" :
        o \in post_until_analysis(file_path)} \cup {"error"}

\* upload_widget.py lines 270-282: the dialog offers every file
browse_file(file_path) ==
    /\ widget' = set_selected_file(widget, file_path)
    /\ UNCHANGED <<file, pc, df, err, ran, df2, out, web>>

\* upload_widget.py lines 291-298
drop_event(file_path) ==
    /\ endswith(file_path.name, dot_csv)
    /\ widget' = set_selected_file(widget, file_path)
    /\ UNCHANGED <<file, pc, df, err, ran, df2, out, web>>

\* upload_widget.py lines 357-381: a click on the enabled upload button
handle_upload ==
    /\ widget.upload_button
    /\ Len(widget.workers) < MaxWorkers
    /\ IF widget.selected_file = <<>> \/ ~widget.token
       THEN widget' = widget
       ELSE widget' =
              [set_uploading(widget, TRUE) EXCEPT !.workers =
                  Append(widget.workers,
                         [file_path |-> widget.selected_file, state |-> "started"])]
    /\ UNCHANGED <<file, pc, df, err, ran, df2, out, web>>

\* upload_widget.py lines 24-31
UploadWorker_run(i) ==
    /\ i \in DOMAIN widget.workers
    /\ widget.workers[i].state = "started"
    /\ \E outcome \in upload_and_analyze(widget.workers[i].file_path) :
          widget' = [widget EXCEPT !.workers[i].state = outcome]
    /\ UNCHANGED <<file, pc, df, err, ran, df2, out, web>>

\* upload_widget.py lines 383-404
on_upload_success(i) ==
    /\ i \in DOMAIN widget.workers
    /\ widget.workers[i].state = "success"
    /\ widget' = [reset_upload(set_uploading(widget, FALSE)) EXCEPT
                     !.workers[i].state = "finished"]
    /\ UNCHANGED <<file, pc, df, err, ran, df2, out, web>>

\* upload_widget.py lines 406-410
on_upload_error(i) ==
    /\ i \in DOMAIN widget.workers
    /\ widget.workers[i].state = "error"
    /\ widget' = [set_uploading(widget, FALSE) EXCEPT
                     !.workers[i].state = "finished"]
    /\ UNCHANGED <<file, pc, df, err, ran, df2, out, web>>

InitWidget ==
    /\ file = GoodContent
    /\ pc = "start"
    /\ df = EmptyFrame
    /\ err = NoError
    /\ ran = {}
    /\ df2 = EmptyFrame
    /\ out = <<>>
    /\ req = <<>> /\ db = {} /\ now = 0 /\ next_id = 1 /\ resp = <<>>
    /\ widget \in {UploadWidget(token) : token \in BOOLEAN}

NextWidget ==
    \/ \E file_path \in WidgetFiles :
          \/ drop_event(file_path)
          \/ browse_file(file_path)
    \/ handle_upload
    \/ \E i \in 1..MaxWorkers :
          \/ UploadWorker_run(i)
          \/ on_upload_success(i)
          \/ on_upload_error(i)

SpecWidget == InitWidget /\ [][NextWidget]_vars

---------------------------------------------------------------------------
(* Properties of the cleaning step *)

SchemaOk == AllColumns \subseteq file.hdr

\* the file's cells after numeric coercion, one row per data line
Coerced == coerce(read_csv(file)).rows

\* the surviving rows under their original labels (data line number - 1)
Kept == df_clean(read_csv(file))

\* the rows that reach drop_duplicates
Pre == dropna(fillna(coerce(read_csv(file))), dropna_thresh).rows

\* cells of a data line that are not empty in the file itself
RawNonNull(row) ==
    Cardinality({c \in DOMAIN row :
        IF c \in Range(numeric_cols) THEN row[c].k # "empty" ELSE row[c] # ""})

NoValueColumns ==
    {c \in Range(numeric_cols) : \A i \in DOMAIN Coerced : IsNaN(Coerced[i][c])}

\* C2: in every returned table no Flowrate, Pressure or Temperature cell is
\* NaN, and each cell that was missing or unparseable holds the mean of the
\* values of its column that did parse.
C2_NumericNeverNull ==
    pc = "loaded" =>
        \A i \in DOMAIN df.rows : \A c \in Range(numeric_cols) :
            /\ ~IsNaN(df.rows[i][c])
            /\ IsNaN(Coerced[Kept.index[i] + 1][c]) =>
                   df.rows[i][c] = mean(Coerced, c)

\* C3: when some numeric column of a file with data rows has no parseable
\* value at all, load_and_clean_data fails with a data-quality error.
C3_AllMissingColumnFails ==
    (pc # "start" /\ SchemaOk /\ Len(file.rows) > 0 /\ NoValueColumns # {}) =>
        (pc = "failed" /\ err.exc = "DataQualityError")

\* C5: a data line is present in the cleaned table only if at least 3 of
\* its 5 required fields were non-null in the file, before any imputation.
C5_KeptHadThreeFields ==
    pc = "loaded" =>
        \A i \in DOMAIN Kept.index :
            RawNonNull(file.rows[Kept.index[i] + 1]) >= dropna_thresh

FirstAt(s, r) == CHOOSE i \in DOMAIN s : s[i] = r /\ \A j \in 1..(i - 1) : s[j] # r

Dups(s) == {j \in DOMAIN s : \E i \in 1..(j - 1) : s[i] = s[j]}

\* C6: the cleaned table has no two equal rows; it holds the first
\* occurrence of every post-imputation row, in the original order, so k
\* duplicates lower the row count by k; and its index is 0..n-1.
C6_NoDuplicates ==
    pc = "loaded" =>
        /\ \A i, j \in DOMAIN df.rows : i # j => df.rows[i] # df.rows[j]
        /\ Range(df.rows) = Range(Pre)
        /\ \A i, j \in DOMAIN df.rows :
               i < j => FirstAt(Pre, df.rows[i]) < FirstAt(Pre, df.rows[j])
        /\ Len(df.rows) = Len(Pre) - Cardinality(Dups(Pre))
        /\ df.index = [i \in 1..Len(df.rows) |-> i - 1]

\* a duplicate was removed from between two rows that stay
C6_Witness ==
    /\ pc = "loaded"
    /\ Len(Pre) = 3 /\ Pre[1] = Pre[3] /\ Pre[1] # Pre[2]
    /\ Len(df.rows) = 2

---------------------------------------------------------------------------
(* Properties of analyze_equipment_data *)

\* C1: for a file whose header lacks a required column, load_and_clean_data
\* fails with an error whose message names a column the header lacks, and
\* no metrics, insights, outlier or efficiency component has been entered.
C1_SchemaErrorNamesColumn ==
    (pc # "start" /\ ~SchemaOk) =>
        /\ pc = "failed"
        /\ err.exc = "ValueError"
        /\ \E c \in AllColumns \ file.hdr : err.msg = "Missing required column: " \o c
        /\ ran = {}
        /\ out = <<>>

\* a header without Pressure only: the error names Pressure
C1_Witness ==
    /\ pc = "failed"
    /\ file.hdr = AllColumns \ {"Pressure"}
    /\ err.msg = "Missing required column: Pressure"
    /\ ran = {}

\* C4: when no row survives cleaning, the call fails with an empty-dataset
\* error raised by the cleaning step, before any downstream component is
\* entered.
C4_EmptyDatasetFailsAtCleaning ==
    (pc # "start" /\ SchemaOk /\ Len(Kept.rows) = 0) =>
        (pc = "failed" /\ err.exc = "EmptyDatasetError" /\ ran = {})

---------------------------------------------------------------------------
(* Properties of the outlier functions *)

\* the payload of an outlier entry and of a table row
EntryPayload(e) == <<e.equipment_name, e.type, e.flowrate, e.pressure, e.temperature>>

RowPayload(row) ==
    <<str(row["Equipment Name"]), str(row["Type"]),
      row["Flowrate"], row["Pressure"], row["Temperature"]>>

OneAndHalf == <<3, 2>>

\* the rows of df strictly outside [q1 - 1.5 iqr, q3 + 1.5 iqr]
StrictlyOutside(col, q1, q3) ==
    {i \in DOMAIN df.rows :
        \/ RLt(df.rows[i][col], RSub(q1, RMul(OneAndHalf, RSub(q3, q1))))
        \/ RLt(RAdd(q3, RMul(OneAndHalf, RSub(q3, q1))), df.rows[i][col])}

\* C8: for each numeric column the IQR outlier list holds exactly the records
\* whose value is strictly below Q1 - 1.5 IQR or strictly above Q3 + 1.5 IQR;
\* a value equal to a bound is not listed; deviation_type is "low" exactly
\* for values below the lower bound and "high" otherwise; outlier_count is
\* the length of the list.
C8_IqrOutliersExact ==
    pc = "analyzed" =>
        \A col \in Range(numeric_cols) :
            \E r \in {out.outliers.basic_analysis[col]} :
            \E S \in {StrictlyOutside(col, quantile(df.rows, col, <<1, 4>>),
                                           quantile(df.rows, col, <<3, 4>>))} :
                /\ r.lower_bound = RSub(r.statistics.q1, RMul(OneAndHalf, r.statistics.iqr))
                /\ r.upper_bound = RAdd(r.statistics.q3, RMul(OneAndHalf, r.statistics.iqr))
                /\ r.outlier_count = Len(r.outliers)
                /\ Len(r.outliers) = Cardinality(S)
                /\ {EntryPayload(r.outliers[k]) : k \in DOMAIN r.outliers} =
                       {RowPayload(df.rows[i]) : i \in S}
                /\ \A k \in DOMAIN r.outliers :
                       /\ r.outliers[k].value # r.lower_bound
                       /\ r.outliers[k].value # r.upper_bound
                       /\ r.outliers[k].deviation_type =
                              IF RLt(r.outliers[k].value, r.lower_bound)
                              THEN "low" ELSE "high"

\* Flowrate has a low and a high outlier, and a value on the upper bound
\* that is not listed
C8_Witness ==
    /\ pc = "analyzed"
    /\ \E r \in {out.outliers.basic_analysis["Flowrate"]} :
        /\ \E k \in DOMAIN r.outliers : r.outliers[k].deviation_type = "low"
        /\ \E k \in DOMAIN r.outliers : r.outliers[k].deviation_type = "high"
        /\ \E i \in DOMAIN df.rows :
               /\ df.rows[i]["Flowrate"] = r.upper_bound
               /\ \A k \in DOMAIN r.outliers :
                      EntryPayload(r.outliers[k]) # RowPayload(df.rows[i])

\* C9: every record reported under consensus_outliers for a column is a
\* record of that column's IQR outlier list and a record of that column's
\* Z-score outlier list.
C9_ConsensusFlaggedByBoth ==
    pc = "analyzed" =>
        \A col \in Range(numeric_cols) :
            \E a \in {out.outliers.comprehensive_analysis} :
            \A k \in DOMAIN a.summary.outlier_summary[col].consensus_outliers.equipment :
                \E e \in {a.summary.outlier_summary[col].consensus_outliers.equipment[k]} :
                    /\ \E i \in DOMAIN a.iqr_method[col].outliers :
                           EntryPayload(a.iqr_method[col].outliers[i]) = EntryPayload(e)
                    /\ \E j \in DOMAIN a.zscore_method[col].outliers :
                           EntryPayload(a.zscore_method[col].outliers[j]) = EntryPayload(e)

\* the values of a column of the table are all the same (and not missing)
AllIdentical(d, col) ==
    /\ Len(d.rows) >= 1
    /\ \A i \in DOMAIN d.rows :
           /\ ~IsNaN(d.rows[i][col])
           /\ d.rows[i][col] = d.rows[1][col]

\* C18: for every numeric column whose values are all identical the
\* Z-score result of the column has an empty outlier list, outlier_count 0
\* and a message, and every other column has its result too.
C18_ConstantColumnHasMessage ==
    pc = "analyzed" =>
        \E z \in {out.outliers.comprehensive_analysis.zscore_method} :
            /\ DOMAIN z = Range(numeric_cols)
            /\ \A col \in Range(numeric_cols) :
                   AllIdentical(df, col) =>
                       /\ z[col].outliers = <<>>
                       /\ z[col].outlier_count = 0
                       /\ "message" \in DOMAIN z[col]

\* C18 (amended): for every numeric column whose computed standard
\* deviation is exactly 0 the Z-score result has an empty outlier list,
\* outlier_count 0 and a message; every other column has its usual result.
C18_ZeroStdHasMessage ==
    pc = "analyzed" =>
        \E z \in {out.outliers.comprehensive_analysis.zscore_method} :
            /\ DOMAIN z = Range(numeric_cols)
            /\ \A col \in Range(numeric_cols) :
                   IF var(df.rows, col) = Zero
                   THEN /\ z[col].outliers = <<>>
                        /\ z[col].outlier_count = 0
                        /\ "message" \in DOMAIN z[col]
                   ELSE /\ "statistics" \in DOMAIN z[col]
                        /\ z[col].outlier_count = Len(z[col].outliers)
                        /\ z[col].total_equipment = Len(df.rows)

\* Temperature is constant over six or more records and gets the message,
\* Flowrate has a Z-score outlier
C18_Witness ==
    /\ pc = "analyzed"
    /\ Len(df.rows) >= 6
    /\ AllIdentical(df, "Temperature")
    /\ \E z \in {out.outliers.comprehensive_analysis.zscore_method} :
           /\ "message" \in DOMAIN z["Temperature"]
           /\ z["Flowrate"].outlier_count >= 1

\* the columns on which some record named n is an IQR outlier
IqrColumnsOf(n) ==
    {col \in Range(numeric_cols) :
        \E i \in DOMAIN out.outliers.basic_analysis[col].outliers :
            out.outliers.basic_analysis[col].outliers[i].equipment_name = n}

\* C23: a name is listed under multi_parameter_outliers exactly when it is
\* an IQR outlier on more than one of the three columns; its
\* outlier_parameters holds each such column once and parameter_count is
\* 2 or 3.
C23_MultiParameterOutliers ==
    pc = "analyzed" =>
        \E m \in {out.outliers.patterns.multi_parameter_outliers} :
            /\ \A i \in DOMAIN df.rows :
                   \E n \in {str(df.rows[i]["Equipment Name"])} :
                       (\E e \in m : e.equipment_name = n) <=>
                           Cardinality(IqrColumnsOf(n)) > 1
            /\ \A e \in m :
                   /\ Range(e.outlier_parameters) = IqrColumnsOf(e.equipment_name)
                   /\ Len(e.outlier_parameters) = Cardinality(IqrColumnsOf(e.equipment_name))
                   /\ e.parameter_count \in 2..3

\* C24: consensus_outliers.count of a column is the number of distinct
\* equipment names found in both the IQR and the Z-score outlier list of
\* the column, and consensus_outliers.equipment has one entry per name.
C24_ConsensusCountsNames ==
    pc = "analyzed" =>
        \A col \in Range(numeric_cols) :
            \E a \in {out.outliers.comprehensive_analysis} :
            \E c \in {a.summary.outlier_summary[col].consensus_outliers} :
            \E both \in {{a.iqr_method[col].outliers[i].equipment_name :
                              i \in DOMAIN a.iqr_method[col].outliers}
                          \cap
                          {a.zscore_method[col].outliers[j].equipment_name :
                              j \in DOMAIN a.zscore_method[col].outliers}} :
                /\ c.count = Cardinality(both)
                /\ Len(c.equipment) = Cardinality(both)
                /\ {c.equipment[k].equipment_name : k \in DOMAIN c.equipment} = both

---------------------------------------------------------------------------
(* Properties of rank_equipment_by_efficiency *)

\* C10: overall_efficiency has one entry per record of the cleaned table,
\* entry k (counted from 1) has rank k, so the ranks are exactly 1..n, and
\* efficiency_score never increases from an entry to the next.
C10_RanksAreOneToN ==
    pc = "ranked" =>
        \E r \in {out.rankings.overall_efficiency} :
            /\ Len(r) = Len(df.rows)
            /\ \A k \in DOMAIN r : r[k].rank = k
            /\ {r[k].rank : k \in DOMAIN r} = 1..Len(df.rows)
            /\ \A k \in 1..(Len(r) - 1) :
                   ~RLt(r[k].efficiency_score, r[k + 1].efficiency_score)

\* three records ranked in an order that is not the row order, with a
\* strict drop in score
C10_Witness ==
    /\ pc = "ranked"
    /\ \E r \in {out.rankings.overall_efficiency} :
        /\ Len(r) = 3
        /\ RLt(r[3].efficiency_score, r[1].efficiency_score)
        /\ <<r[1].flowrate, r[1].pressure, r[1].temperature>> #
               <<df.rows[1]["Flowrate"], df.rows[1]["Pressure"], df.rows[1]["Temperature"]>>

---------------------------------------------------------------------------
(* Properties of the score formulas *)

InUnitInterval(x) == ~IsNaN(x) /\ RLe(Zero, x) /\ RLe(x, One)

\* C11: for every record and every equipment type, named or not,
\* Equipment_Efficiency is a number of the closed interval [0, 1].
C11_EquipmentEfficiencyInUnit ==
    pc = "scored" => InUnitInterval(out.Equipment_Efficiency)

\* a row whose Temperature_norm is NaN: the clamp turns the NaN score into 1
C11_Witness ==
    /\ pc = "scored"
    /\ file.type = "Valve"
    /\ IsNaN(file.nr.Temperature_norm)
    /\ out.Equipment_Efficiency = One

\* C19: for every record whose Type is none of the six named types,
\* Equipment_Efficiency equals the record's Efficiency_Score.
C19_DefaultIsEfficiencyScore ==
    (pc = "scored" /\ file.type \notin NamedTypes) =>
        out.Equipment_Efficiency = out.Efficiency_Score

---------------------------------------------------------------------------
(* Properties of convert_to_json_serializable *)

\* no float of the value is NaN or an infinity, at any depth
RECURSIVE AllFinite(_)
AllFinite(x) ==
    CASE TypeOf(x) \in {"float", "np.float64"} -> ~NonFinite(ValueOf(x))
      [] TypeOf(x) \in {"list", "tuple", "dict"} ->
            \A i \in DOMAIN ValueOf(x) : AllFinite(ValueOf(x)[i])
      [] TypeOf(x) = "np.ndarray" -> \A i \in DOMAIN ValueOf(x) : ~NonFinite(ValueOf(x)[i])
      [] OTHER -> TRUE

\* C12: the value returned by convert_to_json_serializable holds no NaN and
\* no infinity at any depth, whatever tree of dicts, lists, tuples, NumPy
\* arrays and scalars it was given.
C12_OutputAllFinite == pc # "start" => AllFinite(out)

\* C13: the pass is idempotent: applied to its own output it returns that
\* output.
C13_ConvertIdempotent == pc = "reconverted" => df2 = out

---------------------------------------------------------------------------
(* Properties of the report *)

\* C14: every report returned by analyze_equipment_data has exactly the
\* thirteen top-level keys, and every entry of
\* efficiency.rankings.overall_efficiency has an efficiency_score field.
C14_ReportKeys ==
    pc = "done" =>
        /\ DOMAIN out = ReportKeys
        /\ Cardinality(DOMAIN out) = 13
        /\ \A k \in DOMAIN out.efficiency.rankings.overall_efficiency :
               "efficiency_score" \in DOMAIN out.efficiency.rankings.overall_efficiency[k]

\* a report for three records
C14_Witness ==
    /\ pc = "done"
    /\ Len(out.efficiency.rankings.overall_efficiency) = 3
    /\ out.dataset_info.cleaned_size = 3

\* C25: the comprehensive insights of a report hold, for each of the three
\* key correlations, a strength class and a direction.
C25_CorrelationsAreClassified ==
    pc = "done" =>
        \E ci \in {out.comprehensive_insights.correlation_insights} :
            \A k \in {"flowrate_temperature", "flowrate_pressure", "pressure_temperature"} :
                /\ TypeOf(ci[k]) = "dict"
                /\ ValueOf(ci[k]).strength \in
                       {"Very Weak", "Weak", "Moderate", "Strong", "Very Strong"}
                /\ ValueOf(ci[k]).direction \in {"Positive", "Negative"}

\* C20: for every dataset with exactly one record after cleaning the
\* call completes: no component raises.
C20_SingleRecordCompletes ==
    (pc # "start" /\ SchemaOk /\ Len(Kept.rows) = 1) => pc # "failed"

\* C22: the cleaned table is the same after every analysis component as
\* when load_and_clean_data returned it: same columns, rows and values.
C22_CleanedTableUnchanged ==
    pc \in {"loaded", "metrics", "insights", "outliers", "efficiency", "done"} =>
        \E l \in {load_and_clean_data(file)} :
            /\ df = l.df
            /\ df.columns = AllColumns

\* all components have run on a table of three records
C22_Witness ==
    /\ pc = "done"
    /\ ran = {"metrics", "insights", "outliers", "efficiency"}
    /\ Len(df.rows) = 3

---------------------------------------------------------------------------
(* Properties of the upload request *)

\* the request takes the step that returns its response
Responds(r) == req[r].pc # "responded" /\ req'[r].pc = "responded"

\* C15: a request whose analysis fails creates no DatasetUpload record and
\* leaves the stored records as they were; every record that is stored
\* holds the complete report of a request whose analysis had returned.
C15_FailedUploadStoresNothing ==
    [][/\ \A r \in DOMAIN req :
             (Responds(r) /\ req'[r].status # HTTP_200_OK) =>
                 (db' = db /\ req'[r].upload_id = 0)
       /\ \A x \in db' \ db :
             /\ DOMAIN x.summary_data = ReportKeys
             /\ \E r \in DOMAIN req :
                    /\ req[r].pc = "instantiated"
                    /\ req[r].invoked
                    /\ req[r].analysis_results = x.summary_data]_vars

\* one request failed inside the pipeline, another one stored its report
C15_Witness ==
    \E r1, r2 \in DOMAIN req :
        /\ req[r1].pc = "responded" /\ req[r1].invoked
        /\ req[r1].status = HTTP_500_INTERNAL_SERVER_ERROR
        /\ req[r2].pc = "responded" /\ req[r2].status = HTTP_200_OK
        /\ \E x \in db : x.id = req[r2].upload_id

\* C16: when an upload request completes successfully, whatever the other
\* requests have done meanwhile, its user has at most 5 stored reports and
\* the report deleted last is older than all the reports of the user that
\* stay.
C16_AtMostFiveAfterUpload ==
    [][\A r \in DOMAIN req :
          (Responds(r) /\ req'[r].status = HTTP_200_OK) =>
              /\ Cardinality(filter_user(db', req[r].user)) <= history_cap
              /\ \A x \in db \ db' : \A y \in filter_user(db', req[r].user) :
                     x.upload_date < y.upload_date]_vars

\* C17: analyze_equipment_data is invoked only for uploads named *.csv of
\* at most 10MB.
C17_OnlySmallCsvAnalyzed ==
    \A r \in DOMAIN req :
        req[r].invoked =>
            /\ endswith(req[r].upload.name, dot_csv)
            /\ req[r].upload.size <= MaxFileSize

\* the messages post() writes itself and the loader's schema message
ValidationMessages ==
    {"No file provided", "File must be a CSV"} \cup
    {"Missing required column: " \o c : c \in AllColumns}

\* the request fails one of the validations: no file, a name that does not
\* end in .csv, a missing required column
FailsValidation(u) ==
    \/ ~u.has_file
    \/ ~endswith(u.name, dot_csv)
    \/ AllColumns \ u.content.hdr # {}

\* C21: an error response carries a specific message only for a validation
\* failure; every other failure is answered 'Internal server error', never
\* with the text of the exception.
C21_OnlyValidationErrorsAreSpecific ==
    \A r \in DOMAIN req :
        (req[r].pc = "responded" /\ req[r].status # HTTP_200_OK) =>
            IF FailsValidation(req[r].upload)
            THEN req[r].error \in ValidationMessages
            ELSE req[r].error = "Internal server error"

\* C26: a delete request of a user for one of their own stored datasets
\* is answered 204, delete_dataset returns True and the record is gone from
\* the table (so from every later history response, ids not being reused).
C26_DeleteRemovesDataset ==
    [][(/\ resp' # resp
        /\ resp'.view = "delete"
        /\ get_dataset(db, resp'.dataset_id, resp'.user) # {})
       => /\ resp'.status = HTTP_204_NO_CONTENT
          /\ resp'.returned
          /\ get_dataset(db', resp'.dataset_id, resp'.user) = {}]_vars

\* C29: a history or detail response to a user holds only records of that
\* user, a detail request for a record of another user is answered 404,
\* and no step of an upload request adds, removes or changes a record of
\* another user.
C29_ReportsIsolatedPerUser ==
    [][/\ (resp' # resp /\ resp'.view \in {"history", "detail"}) =>
            /\ \A k \in DOMAIN resp'.datasets :
                   \E x \in db : x.id = resp'.datasets[k] /\ x.user = resp'.user
            /\ (resp'.view = "detail" /\
                 \E x \in db : x.id = resp'.dataset_id /\ x.user # resp'.user) =>
                    resp'.status = HTTP_404_NOT_FOUND
       /\ \A r \in DOMAIN req :
             req'[r] # req[r] =>
                 {x \in db : x.user # req[r].user} = {x \in db' : x.user # req[r].user}]_vars

\* both users have stored reports, and a detail request for a report of
\* the other user has been answered 404
C29_Witness ==
    /\ resp # <<>>
    /\ resp.view = "detail"
    /\ resp.status = HTTP_404_NOT_FOUND
    /\ \E x \in db : x.id = resp.dataset_id /\ x.user # resp.user
    /\ filter_user(db, resp.user) # {}


\* the workers of the widget whose callback has not run yet
Unfinished == {i \in DOMAIN widget.workers : widget.workers[i].state # "finished"}

\* C27: in every state of the upload widget the upload button is enabled
\* only while a file of at most 10MB is selected, and no file over 10MB
\* has been passed to upload_and_analyze.
C27_ButtonOnlyForSmallFile ==
    /\ widget.upload_button =>
          /\ widget.selected_file # <<>>
          /\ widget.selected_file.size <= MaxFileSize
    /\ \A i \in DOMAIN widget.workers :
          widget.workers[i].state # "started" =>
              widget.workers[i].file_path.size <= MaxFileSize

\* C28: at most one upload worker is unfinished at any time, and while one
\* is the upload button is disabled.
C28_AtMostOneWorker ==
    /\ Cardinality(Unfinished) <= 1
    /\ Unfinished # {} => ~widget.upload_button


\* C30: for every record of a cleaned dataset the normalized Flowrate,
\* Pressure and Temperature lie in [0, 1], and are 0 in a column whose
\* maximum equals its minimum; Efficiency_Score, Performance_Index and
\* Operational_Score lie in [0, 1]; and no closeness term is below 0, so
\* the floors at 0 change nothing.
C30_NormalizedAndScoresInUnit ==
    pc = "scored" =>
        \A i \in DOMAIN out :
            /\ InUnitInterval(out[i].Flowrate_norm)
            /\ InUnitInterval(out[i].Pressure_norm)
            /\ InUnitInterval(out[i].Temperature_norm)
            /\ colmax(df.rows, "Flowrate") = colmin(df.rows, "Flowrate") =>
                   out[i].Flowrate_norm = Zero
            /\ colmax(df.rows, "Pressure") = colmin(df.rows, "Pressure") =>
                   out[i].Pressure_norm = Zero
            /\ colmax(df.rows, "Temperature") = colmin(df.rows, "Temperature") =>
                   out[i].Temperature_norm = Zero
            /\ InUnitInterval(out[i].Efficiency_Score)
            /\ InUnitInterval(out[i].Performance_Index)
            /\ InUnitInterval(out[i].Operational_Score)
            /\ RLe(Zero, closeness_float(out[i].Temperature_norm, <<3, 5>>))
            /\ RLe(Zero, closeness_float(out[i].Flowrate_norm, <<3, 4>>))
            /\ RLe(Zero, closeness_float(out[i].Pressure_norm, <<13, 20>>))
            /\ RLe(Zero, closeness_float(out[i].Temperature_norm, <<7, 10>>))

============================================================================
